---- MODULE Spec2Model ----
(***************************************************************************)
(* questions.py: the question corpus loader (get_questions, questions),    *)
(* the target file registry (questions_generator) and the three prompt     *)
(* composers (question_format, validation_format, question_generator).     *)
(*                                                                         *)
(* A text (a Python str) is a sequence of tokens; each token is a          *)
(* non-empty piece of the text and the text is the concatenation of its    *)
(* tokens.  The corpus resource is tokenised one character per token, so   *)
(* that the JSON reader works on characters.  The prompt templates are     *)
(* tokenised one source line per token, followed by the token "\n"; a line *)
(* that holds a replacement field is cut at the field, a line that holds a *)
(* [File: ...] tag is also cut at "[File: " and at every "]", a numbered   *)
(* item "N. **Name**" is cut into its marker "N. **", its name and the     *)
(* rest, a code span that opens with #NoVulnerability is cut out of its    *)
(* line, and a line of a list display that holds one quoted path is cut    *)
(* around the path, so that tags, item names, sentinels and listed paths   *)
(* are tokens.                                                             *)
(* A backquote or a character outside ASCII is written \uXXXX in its token *)
(* (the source holds no backslash, so distinct texts stay distinct).       *)
(***************************************************************************)
EXTENDS Integers, Sequences, FiniteSets, TLC

VARIABLES
  resource,   \* the file all_questions.json, as the environment provides it
  pc,         \* position of module initialisation (lines 6-15)
  handle,     \* the file object f of the with statement: "none", "open", "closed"
  exc,        \* the exception being propagated inside get_questions, or "none"
  ret,        \* the value get_questions is returning
  questions,  \* the module global `questions` (line 15)
  call,       \* the composer call made last: [fn, arg]
  doc,        \* the document that call returned
  saved,      \* an earlier call and its document, kept for comparison
  opens,      \* how many times open("all_questions.json", "r") was called
  registry,   \* the module global `questions_generator` (line 17)
  threads     \* the composer call each thread of a threaded driver is in

vars == <<resource, pc, handle, exc, ret, questions, call, doc, saved,
          opens, registry, threads>>

(***************************************************************************)
(* Bounds of the model.                                                    *)
(***************************************************************************)
\* longest stored corpus (number of questions) the resource is generated from
MaxCorpus == 2
\* longest stored question, in characters
MaxQLen == 1
\* longest composer input, in tokens
MaxInputLen == 1

(***************************************************************************)
(* Python values, tagged by type.                                          *)
(***************************************************************************)
PyStr(s)   == [t |-> "str",  v |-> s]
PyList(xs) == [t |-> "list", v |-> xs]
PyDict(kv) == [t |-> "dict", v |-> kv]
PyInt(ds)  == [t |-> "int",  v |-> ds]
PyNone     == [t |-> "None", v |-> <<>>]
\* no value: a name not bound yet
Unbound    == [t |-> "unbound", v |-> <<>>]

(***************************************************************************)
(* json.load (line 9): the reader of the standard json module, for the     *)
(* part of the grammar the model's resources use: arrays, objects,         *)
(* strings with the escapes \" \\ \/ \n \r \t, integers and null.          *)
(* Positions are 1-based; `end` is the position of the next unread         *)
(* character.                                                              *)
(***************************************************************************)
WHITESPACE == {" ", "\t", "\n", "\r"}
DIGITS == {"0", "1", "2", "3", "4", "5", "6", "7", "8", "9"}
BACKSLASH == {"\"", "\\", "/", "n", "r", "t"}

Unescape(c) ==
  CASE c = "n" -> "\n"
    [] c = "r" -> "\r"
    [] c = "t" -> "\t"
    [] OTHER -> c

\* a JSONDecodeError raised at this point
Bad == [ok |-> FALSE, val |-> Unbound, end |-> 0]
Good(v, e) == [ok |-> TRUE, val |-> v, end |-> e]

RECURSIVE SkipWs(_, _)
SkipWs(s, i) ==
  IF i <= Len(s) /\ s[i] \in WHITESPACE THEN SkipWs(s, i + 1) ELSE i

\* py_scanstring: i is the position after the opening quote
RECURSIVE scanstring(_, _, _)
scanstring(s, i, acc) ==
  IF i > Len(s) THEN Bad                              \* unterminated string
  ELSE IF s[i] = "\"" THEN Good(acc, i + 1)
  ELSE IF s[i] = "\\" THEN
    IF i + 1 <= Len(s) /\ s[i + 1] \in BACKSLASH
    THEN scanstring(s, i + 2, Append(acc, Unescape(s[i + 1])))
    ELSE Bad                                          \* invalid \escape
  ELSE IF s[i] \in {"\n", "\r", "\t"} THEN Bad        \* control character (strict)
  ELSE scanstring(s, i + 1, Append(acc, s[i]))

RECURSIVE ScanDigits(_, _)
ScanDigits(s, i) ==
  IF i <= Len(s) /\ s[i] \in DIGITS THEN ScanDigits(s, i + 1) ELSE i

RECURSIVE scan_once(_, _)
RECURSIVE JSONArrayItems(_, _, _)
RECURSIVE JSONObjectItems(_, _, _)

\* JSONArray after "[": i is the position of the next value
JSONArrayItems(s, i, acc) ==
  LET r == scan_once(s, i) IN
  IF ~r.ok THEN Bad
  ELSE LET e == SkipWs(s, r.end)
           vs == Append(acc, r.val) IN
       IF e > Len(s) THEN Bad
       ELSE IF s[e] = "]" THEN Good(PyList(vs), e + 1)
       ELSE IF s[e] = "," THEN JSONArrayItems(s, SkipWs(s, e + 1), vs)
       ELSE Bad                                       \* expecting ',' delimiter

JSONArray(s, i) ==
  LET e == SkipWs(s, i) IN
  IF e <= Len(s) /\ s[e] = "]" THEN Good(PyList(<<>>), e + 1)
  ELSE JSONArrayItems(s, e, <<>>)

\* JSONObject: i is the position of the opening quote of the next key
JSONObjectItems(s, i, acc) ==
  IF ~(i <= Len(s) /\ s[i] = "\"") THEN Bad           \* expecting property name
  ELSE
    LET k == scanstring(s, i + 1, <<>>) IN
    IF ~k.ok THEN Bad
    ELSE LET c == SkipWs(s, k.end) IN
      IF ~(c <= Len(s) /\ s[c] = ":") THEN Bad        \* expecting ':' delimiter
      ELSE LET r == scan_once(s, SkipWs(s, c + 1)) IN
        IF ~r.ok THEN Bad
        ELSE LET e == SkipWs(s, r.end)
                 kv == Append(acc, <<k.val, r.val>>) IN
          IF e > Len(s) THEN Bad
          ELSE IF s[e] = "}" THEN Good(PyDict(kv), e + 1)
          ELSE IF s[e] = "," THEN JSONObjectItems(s, SkipWs(s, e + 1), kv)
          ELSE Bad                                    \* expecting ',' delimiter

JSONObject(s, i) ==
  LET e == SkipWs(s, i) IN
  IF e <= Len(s) /\ s[e] = "}" THEN Good(PyDict(<<>>), e + 1)
  ELSE JSONObjectItems(s, e, <<>>)

scan_once(s, i) ==
  IF i > Len(s) THEN Bad                              \* expecting value
  ELSE IF s[i] = "\"" THEN
    LET r == scanstring(s, i + 1, <<>>) IN
    IF r.ok THEN Good(PyStr(r.val), r.end) ELSE Bad
  ELSE IF s[i] = "{" THEN JSONObject(s, i + 1)
  ELSE IF s[i] = "[" THEN JSONArray(s, i + 1)
  ELSE IF i + 3 <= Len(s) /\ SubSeq(s, i, i + 3) = <<"n", "u", "l", "l">>
    THEN Good(PyNone, i + 4)
  ELSE IF s[i] \in DIGITS THEN
    LET e == IF s[i] = "0" THEN i + 1 ELSE ScanDigits(s, i) IN
    Good(PyInt(SubSeq(s, i, e - 1)), e)
  ELSE Bad                                            \* expecting value

\* JSONDecoder.decode: one value, then only whitespace up to the end
json_load(s) ==
  LET r == scan_once(s, SkipWs(s, 1)) IN
  IF r.ok /\ SkipWs(s, r.end) = Len(s) + 1 THEN r ELSE Bad   \* else: extra data

(***************************************************************************)
(* The corpus resource all_questions.json (line 8).  A resource is         *)
(*   kind   "absent"  (open raises FileNotFoundError),                     *)
(*          "denied"  (open raises PermissionError),                       *)
(*          "ioerror" (open succeeds, reading raises OSError),             *)
(*          "text"    (open and read succeed and give `text`);             *)
(*   text   the characters of the file;                                    *)
(*   form   what was written to it: "corpus" (a complete JSON array of     *)
(*          strings), "garbled" (not a JSON document), "other" (a JSON     *)
(*          document of another shape);                                    *)
(*   stored the sequence of questions written to it (form "corpus", or the *)
(*          sequence a truncated write was writing).                       *)
(* form and stored are known from how the resource was produced, never     *)
(* from reading it back.                                                   *)
(***************************************************************************)
\* characters a stored question is made of: a letter, and the quote that must be escaped
QChars == {"a", "\""}

RECURSIVE SeqsUpTo(_, _)
SeqsUpTo(S, n) ==
  IF n = 0 THEN {<<>>}
  ELSE LET shorter == SeqsUpTo(S, n - 1) IN
       shorter \cup {Append(s, x) : s \in shorter, x \in S}

StoredQuestions == SeqsUpTo(QChars, MaxQLen)
StoredCorpora == SeqsUpTo(StoredQuestions, MaxCorpus)

\* a JSON string literal for q, as json.dump writes it
RECURSIVE EscapeChars(_)
EscapeChars(q) ==
  IF q = <<>> THEN <<>>
  ELSE (CASE Head(q) = "\"" -> <<"\\", "\"">>
          [] Head(q) = "\\" -> <<"\\", "\\">>
          [] Head(q) = "\n" -> <<"\\", "n">>
          [] OTHER -> <<Head(q)>>) \o EscapeChars(Tail(q))

DumpStr(q) == <<"\"">> \o EscapeChars(q) \o <<"\"">>

RECURSIVE DumpItems(_, _)
DumpItems(c, sep) ==
  IF c = <<>> THEN <<>>
  ELSE IF Len(c) = 1 THEN DumpStr(c[1])
  ELSE DumpStr(c[1]) \o sep \o DumpItems(Tail(c), sep)

\* the JSON text of the corpus c: json.dump with its default separators
\* ("default"), with separators (",", ":") ("compact"), or with indent=1 ("indent")
Dump(c, style) ==
  IF c = <<>> THEN <<"[", "]">>
  ELSE CASE style = "default" -> <<"[">> \o DumpItems(c, <<",", " ">>) \o <<"]">>
         [] style = "compact" -> <<"[">> \o DumpItems(c, <<",">>) \o <<"]">>
         [] style = "indent"  ->
              <<"[", "\n", " ">> \o DumpItems(c, <<",", "\n", " ">>) \o <<"\n", "]">>

DumpStyles == {"default", "compact", "indent"}

Res(kind, text, form, stored) ==
  [kind |-> kind, text |-> text, form |-> form, stored |-> stored]

\* complete, readable corpus files
CorpusResources ==
  {Res("text", Dump(c, st), "corpus", c) : c \in StoredCorpora, st \in DumpStyles}

\* a write that stopped early: every proper prefix of a corpus file
TruncatedResources ==
  UNION {{Res("text", SubSeq(Dump(c, "default"), 1, n), "garbled", c) :
            n \in 0..(Len(Dump(c, "default")) - 1)} : c \in StoredCorpora}

\* other files that are not JSON documents
GarbledTexts ==
  {<<"a">>, <<"[", "\"", "a", "\"", ",", "]">>, <<"[", "\"", "a", "\"", "]", "]">>,
   <<"[", "\"", "\\", "a", "\"", "]">>, <<"{", "\"", "a", "\"", "}">>,
   <<"[", "\"", "a", "\"", " ", "\"", "a", "\"", "]">>}

\* files that are JSON documents, but not an array of strings
OtherTexts ==
  {<<"{", "}">>, <<"n", "u", "l", "l">>, <<"1">>, <<"\"", "a", "\"">>,
   <<"[", "1", "]">>, <<"[", "\"", "a", "\"", ",", " ", "1", "]">>,
   <<"[", "[", "\"", "a", "\"", "]", "]">>,
   <<"{", "\"", "a", "\"", ":", " ", "[", "\"", "a", "\"", "]", "}">>}

\* files that exist but cannot be opened or read; their content is a corpus file
UnreadableResources ==
  {Res(k, Dump(c, "default"), "corpus", c) : k \in {"denied", "ioerror"}, c \in StoredCorpora}

Resources ==
  {Res("absent", <<>>, "garbled", <<>>)}
    \cup UnreadableResources \cup CorpusResources \cup TruncatedResources
    \cup {Res("text", t, "garbled", <<>>) : t \in GarbledTexts}
    \cup {Res("text", t, "other", <<>>) : t \in OtherTexts}

\* the resources the whole-program specification starts from
ScenarioResources ==
  {Res("absent", <<>>, "garbled", <<>>),
   Res("text", <<"[", "\"", "a">>, "garbled", <<<<"a">>>>),
   Res("text", <<"{", "}">>, "other", <<>>),
   Res("text", Dump(<<>>, "default"), "corpus", <<>>),
   Res("text", Dump(<<<<"a">>, <<"\"">> >>, "default"), "corpus", <<<<"a">>, <<"\"">> >>)}

\* the Python list of str holding the questions qs
PyQuestions(qs) == PyList([i \in 1..Len(qs) |-> PyStr(qs[i])])

(***************************************************************************)
(* get_questions (lines 6-12) and `questions = get_questions()` (line 15), *)
(* one action per statement.                                               *)
(***************************************************************************)
\* a handler written `except OSError:` instead of the bare `except:`
Handles_OSErrorOnly(e) == e \in {"FileNotFoundError", "PermissionError", "OSError"}

\* the conditions that are no Exception: an interrupt (Ctrl-C, SIGINT) and an
\* exit request (sys.exit, here from a signal handler)
Interrupts == {"KeyboardInterrupt", "SystemExit"}

\* a handler written `except Exception:` instead of the bare `except:`
Handles_ExceptionOnly(e) == e \notin Interrupts

\* line 11, the bare except clause: the exceptions the handler catches
Handles(e) == TRUE

\* line 8: open("all_questions.json", "r")
Open ==
  /\ pc = "open"
  /\ IF resource.kind = "absent"
       THEN exc' = "FileNotFoundError" /\ pc' = "except" /\ handle' = handle
     ELSE IF resource.kind = "denied"
       THEN exc' = "PermissionError" /\ pc' = "except" /\ handle' = handle
     ELSE exc' = exc /\ pc' = "load" /\ handle' = "open"
  /\ opens' = opens + 1
  /\ UNCHANGED <<resource, ret, questions, call, doc, saved, registry, threads>>

\* a loader written `return json.load(f)["questions"]`: indexing the list raises
Load_ExpectsDict ==
  /\ pc = "load"
  /\ IF resource.kind = "ioerror"
       THEN exc' = "OSError" /\ ret' = ret
     ELSE LET r == json_load(resource.text) IN
          IF r.ok /\ r.val.t = "dict" THEN exc' = exc /\ ret' = r.val
          ELSE IF r.ok THEN exc' = "TypeError" /\ ret' = ret
          ELSE exc' = "JSONDecodeError" /\ ret' = ret
  /\ pc' = "exit"
  /\ UNCHANGED <<resource, handle, questions, call, doc, saved,
               opens, registry, threads>>

\* the questions that a text holds completely, in front of the place where it
\* stops being a corpus file
ParsedBeforeFailure(r) ==
  LET Front(k) == <<"[">> \o DumpItems(SubSeq(r.stored, 1, k), <<",", " ">>)
      Fits(k) == /\ Len(Front(k)) <= Len(r.text)
                 /\ SubSeq(r.text, 1, Len(Front(k))) = Front(k)
      ks == {k \in 0..Len(r.stored) : Fits(k)}
  IN IF ks = {} THEN <<>>
     ELSE SubSeq(r.stored, 1, CHOOSE k \in ks : \A j \in ks : j <= k)

\* a loader that reads the array item by item and, when the text stops being
\* JSON, returns the items it has read
Load_KeepsParsed ==
  /\ pc = "load"
  /\ IF resource.kind = "ioerror"
       THEN exc' = "OSError" /\ ret' = ret
     ELSE LET r == json_load(resource.text) IN
          IF r.ok THEN exc' = exc /\ ret' = r.val
          ELSE exc' = exc /\ ret' = PyQuestions(ParsedBeforeFailure(resource))
  /\ pc' = "exit"
  /\ UNCHANGED <<resource, handle, questions, call, doc, saved,
               opens, registry, threads>>

\* line 9: return json.load(f), inside the with block
Load ==
  /\ pc = "load"
  /\ IF resource.kind = "ioerror"
       THEN exc' = "OSError" /\ ret' = ret
     ELSE LET r == json_load(resource.text) IN
          IF r.ok THEN exc' = exc /\ ret' = r.val
          ELSE exc' = "JSONDecodeError" /\ ret' = ret
  /\ pc' = "exit"
  /\ UNCHANGED <<resource, handle, questions, call, doc, saved,
               opens, registry, threads>>

\* a loader written `f = open(...)` with no with statement: nothing closes f
WithExit_NoClose ==
  /\ pc = "exit"
  /\ handle' = handle
  /\ pc' = IF exc = "none" THEN "return" ELSE "except"
  /\ UNCHANGED <<resource, exc, ret, questions, call, doc, saved,
               opens, registry, threads>>

\* line 8: leaving the with block, by the return or by an exception, closes f
WithExit ==
  /\ pc = "exit"
  /\ handle' = "closed"
  /\ pc' = IF exc = "none" THEN "return" ELSE "except"
  /\ UNCHANGED <<resource, exc, ret, questions, call, doc, saved,
               opens, registry, threads>>

\* a handler written `except: return None`: a failed load is told apart from an
\* empty corpus
Except_ReturnsNone ==
  /\ pc = "except"
  /\ ret' = PyNone /\ exc' = "none" /\ pc' = "return"
  /\ UNCHANGED <<resource, handle, questions, call, doc, saved,
               opens, registry, threads>>

\* lines 11-12: except: return []
Except ==
  /\ pc = "except"
  /\ IF Handles(exc)
       THEN ret' = PyList(<<>>) /\ exc' = "none" /\ pc' = "return"
     ELSE ret' = ret /\ exc' = exc /\ pc' = "raised"   \* propagates: the import fails
  /\ UNCHANGED <<resource, handle, questions, call, doc, saved,
               opens, registry, threads>>

\* line 15: questions = get_questions()
Assign ==
  /\ pc = "return"
  /\ questions' = ret
  /\ pc' = "registry"
  /\ UNCHANGED <<resource, handle, exc, ret, call, doc, saved,
               opens, registry, threads>>

\* lines 8-9: an interrupt or an exit request is raised in the main thread while
\* open() runs (no file object is bound yet) or while json.load reads and
\* parses (the with block is left through its exit, which closes f)
Interrupt ==
  /\ pc \in {"open", "load"}
  /\ \E e \in Interrupts : exc' = e
  /\ opens' = IF pc = "open" THEN opens + 1 ELSE opens
  /\ pc' = IF pc = "open" THEN "except" ELSE "exit"
  /\ UNCHANGED <<resource, handle, ret, questions, call, doc, saved,
                 registry, threads>>

(***************************************************************************)
(* The target file registry (lines 17-37).                                 *)
(***************************************************************************)
\* a registry in which one line was pasted twice
questions_generator_pasted_twice ==
  << "contracts/rujira-account/src/lib.rs",
     "contracts/rujira-account/src/contract.rs",
     "contracts/rujira-account/src/execute.rs",
     "contracts/rujira-account/src/error.rs",
     "contracts/rujira-account/src/state.rs",
     "contracts/rujira-ghost-credit/src/lib.rs",
     "contracts/rujira-ghost-credit/src/account.rs",
     "contracts/rujira-ghost-credit/src/config.rs",
     "contracts/rujira-ghost-credit/src/contract.rs",
     "contracts/rujira-ghost-credit/src/error.rs",
     "contracts/rujira-ghost-credit/src/events.rs",
     "contracts/rujira-ghost-credit/src/state.rs",
     "contracts/rujira-ghost-vault/src/lib.rs",
     "contracts/rujira-ghost-vault/src/borrowers.rs",
     "contracts/rujira-ghost-vault/src/config.rs",
     "contracts/rujira-ghost-vault/src/config.rs",
     "contracts/rujira-ghost-vault/src/contract.rs",
     "contracts/rujira-ghost-vault/src/error.rs",
     "contracts/rujira-ghost-vault/src/events.rs",
     "contracts/rujira-ghost-vault/src/state.rs" >>

\* a registry that leaves out a file the prompt lists among the core files
questions_generator_without_borrowers ==
  << "contracts/rujira-account/src/lib.rs",
     "contracts/rujira-account/src/contract.rs",
     "contracts/rujira-account/src/execute.rs",
     "contracts/rujira-account/src/error.rs",
     "contracts/rujira-account/src/state.rs",
     "contracts/rujira-ghost-credit/src/lib.rs",
     "contracts/rujira-ghost-credit/src/account.rs",
     "contracts/rujira-ghost-credit/src/config.rs",
     "contracts/rujira-ghost-credit/src/contract.rs",
     "contracts/rujira-ghost-credit/src/error.rs",
     "contracts/rujira-ghost-credit/src/events.rs",
     "contracts/rujira-ghost-credit/src/state.rs",
     "contracts/rujira-ghost-vault/src/lib.rs",
     "contracts/rujira-ghost-vault/src/config.rs",
     "contracts/rujira-ghost-vault/src/contract.rs",
     "contracts/rujira-ghost-vault/src/error.rs",
     "contracts/rujira-ghost-vault/src/events.rs",
     "contracts/rujira-ghost-vault/src/state.rs" >>

\* lines 17-37
questions_generator ==
  << "contracts/rujira-account/src/lib.rs",
     "contracts/rujira-account/src/contract.rs",
     "contracts/rujira-account/src/execute.rs",
     "contracts/rujira-account/src/error.rs",
     "contracts/rujira-account/src/state.rs",
     "contracts/rujira-ghost-credit/src/lib.rs",
     "contracts/rujira-ghost-credit/src/account.rs",
     "contracts/rujira-ghost-credit/src/config.rs",
     "contracts/rujira-ghost-credit/src/contract.rs",
     "contracts/rujira-ghost-credit/src/error.rs",
     "contracts/rujira-ghost-credit/src/events.rs",
     "contracts/rujira-ghost-credit/src/state.rs",
     "contracts/rujira-ghost-vault/src/lib.rs",
     "contracts/rujira-ghost-vault/src/borrowers.rs",
     "contracts/rujira-ghost-vault/src/config.rs",
     "contracts/rujira-ghost-vault/src/contract.rs",
     "contracts/rujira-ghost-vault/src/error.rs",
     "contracts/rujira-ghost-vault/src/events.rs",
     "contracts/rujira-ghost-vault/src/state.rs" >>

\* line 17: questions_generator = [...], the statement after line 15; the def
\* statements that follow bind the composers and the import is over
Register ==
  /\ pc = "registry"
  /\ registry' = PyList([i \in DOMAIN questions_generator |->
                           PyStr(<<questions_generator[i]>>)])
  /\ pc' = "ready"
  /\ UNCHANGED <<resource, handle, exc, ret, questions, call, doc, saved,
                 opens, threads>>

(***************************************************************************)
(* f-strings.  A template is the sequence of the parts of the literal:     *)
(* Lit(tokens) is literal text, Var(name) a replacement field {name} with  *)
(* no conversion and no format spec, which str.__format__ renders as the   *)
(* string itself.                                                          *)
(***************************************************************************)
Lit(tokens) == [k |-> "lit", s |-> tokens]
Var(name)   == [k |-> "var", s |-> <<name>>]

\* what a call gives back: a str, or an exception
Returned(text) == [raised |-> "none", text |-> text]
Raised(e)      == [raised |-> e, text |-> <<>>]

FieldNames(tpl) == {tpl[i].s[1] : i \in {j \in DOMAIN tpl : tpl[j].k = "var"}}

RECURSIVE Join(_, _)
Join(tpl, locals) ==
  IF tpl = <<>> THEN <<>>
  ELSE (IF Head(tpl).k = "lit" THEN Head(tpl).s ELSE locals[Head(tpl).s[1]])
         \o Join(Tail(tpl), locals)

\* evaluation of f"""...""" in a function whose local variables are `locals`
FString(tpl, locals) ==
  IF FieldNames(tpl) \subseteq DOMAIN locals
    THEN Returned(Join(tpl, locals))
  ELSE Raised("NameError")

\* src/questions.py lines 50-58, one source line per row
prompt_qf_1 ==
  <<
     "  ", "\n",
     "You are an **Elite DeFi Security Auditor** specializing in   ", "\n",
     "overcollateralized lending protocols, cross-chain asset management, oracle   ", "\n",
     "manipulation resistance, and liquidation mechanisms. Your task is to analyze   ", "\n",
     "the **Rujira Protocol** codebase\\u2014a CosmWasm-based lending and borrowing system   ", "\n",
     "built on THORChain featuring secured assets, multi-collateral credit accounts,   ", "\n",
     "and permissionless liquidations\\u2014through the lens of this single security question:   ", "\n",
     "  ", "\n",
     "**Security Question (scope for this run):** "
  >>

\* src/questions.py lines 58-342, one source line per row
prompt_qf_2 ==
  <<
     "  ", "\n",
     "  ", "\n",
     "**RUJIRA PROTOCOL CONTEXT:**  ", "\n",
     "  ", "\n",
     "**Architecture**: Rujira enables overcollateralized borrowing of THORChain secured   ", "\n",
     "assets through a three-contract system. Users deposit collateral into credit accounts   ", "\n",
     "(\\u0060rujira-account\\u0060), borrow from lending vaults (\\u0060rujira-ghost-vault\\u0060), and all operations   ", "\n",
     "are orchestrated by a registry contract (\\u0060rujira-ghost-credit\\u0060). The protocol maintains   ", "\n",
     "solvency through dynamic LTV calculations, collateral ratio haircuts, and   ", "\n",
     "permissionless liquidation mechanisms.  ", "\n",
     "  ", "\n",
     "Think in invariant   ", "\n",
     "Check every logic entry that could affect the protocol base on the question provided   ", "\n",
     "Look at the exact file provided and other places also if it can cause a severe vuln   ", "\n",
     "Think in an elite way becasue there is always a logic vuln that could occur   ", "\n",
     "  ", "\n",
     "**Key Components**:   ", "\n",
     "  ", "\n",
     "* **Credit Registry**: \\u0060rujira-ghost-credit/src/contract.rs\\u0060 (main orchestrator   ", "\n",
     "  with account creation, LTV enforcement, liquidation triggers),   ", "\n",
     "  \\u0060rujira-ghost-credit/src/account.rs\\u0060 (account validation and LTV calculations),   ", "\n",
     "  \\u0060rujira-ghost-credit/src/config.rs\\u0060 (protocol parameters and validation)  ", "\n",
     "  ", "\n",
     "* **Lending Vaults**: \\u0060rujira-ghost-vault/src/contract.rs\\u0060 (vault operations,   ", "\n",
     "  interest distribution), \\u0060rujira-ghost-vault/src/state.rs\\u0060 (share accounting,   ", "\n",
     "  interest accrual), \\u0060rujira-ghost-vault/src/borrowers.rs\\u0060 (borrower limits   ", "\n",
     "  and authorization)  ", "\n",
     "  ", "\n",
     "* **Individual Accounts**: \\u0060rujira-account/src/contract.rs\\u0060 (sudo-only access   ", "\n",
     "  pattern, isolated accounting), \\u0060rujira-account/src/execute.rs\\u0060 (message   ", "\n",
     "  forwarding and execution)  ", "\n",
     "  ", "\n",
     "**Files in Scope**: All contracts in \\u0060contracts/rujira-account/src/\\u0060,   ", "\n",
     "\\u0060contracts/rujira-ghost-credit/src/\\u0060, and \\u0060contracts/rujira-ghost-vault/src/\\u0060   ", "\n",
     "directories. Test files are **out of scope** for vulnerability analysis   ", "\n",
     "but may be referenced for understanding expected behavior.  ", "\n",
     "  ", "\n",
     "**CRITICAL INVARIANTS (derived from protocol specification and code):**  ", "\n",
     "  ", "\n",
     "1. **", "Owner-Gated Accounts", "**: Only \\u0060account.owner\\u0060 can initiate operations via   ", "\n",
     "   \\u0060ExecuteMsg::Account\\u0060. This ensures debt creation and collateral movements   ", "\n",
     "   are bound to the NFT-like ownership model.  ", "\n",
     "  ", "\n",
     "2. **", "Post-Adjustment LTV Check", "**: After any owner operation, \\u0060adjusted_ltv\\u0060 must   ", "\n",
     "   be \\u0060< adjustment_threshold\\u0060. If exceeded, the transaction fails to prevent   ", "\n",
     "   unsafe account states.  ", "\n",
     "  ", "\n",
     "3. **", "Safe Liquidation Outcomes", "**: Liquidations only trigger when   ", "\n",
     "   \\u0060adjusted_ltv >= liquidation_threshold\\u0060 and must stop before over-selling   ", "\n",
     "   collateral, respecting user preferences and max slip limits.  ", "\n",
     "  ", "\n",
     "4. **", "Whitelisted Vault Access", "**: Registry only routes to vaults listed in   ", "\n",
     "   \\u0060collateral_ratios\\u0060, preventing rogue contracts from being used as debt sources.  ", "\n",
     "  ", "\n",
     "5. **", "Bounded Config Values", "**: All configuration changes validated via   ", "\n",
     "   \\u0060Config::validate\\u0060, enforcing fee caps, ratio constraints, and threshold ordering.  ", "\n",
     "  ", "\n",
     "6. **", "Fee-First Liquidation Repay", "**: Protocol and liquidator fees extracted before   ", "\n",
     "   debt repayment, ensuring fees are never minted without real debt repayment.  ", "\n",
     "  ", "\n",
     "7. **", "Admin-Only Accounts", "**: \\u0060rujira-account\\u0060 instances only accept \\u0060sudo\\u0060 calls   ", "\n",
     "   from registry, maintaining strict access control over account operations.  ", "\n",
     "  ", "\n",
     "8. **", "Governance-Whitelisted Borrowers", "**: Only pre-approved contracts via   ", "\n",
     "   \\u0060SudoMsg::SetBorrower\\u0060 can borrow from vaults, preventing unauthorized debt creation.  ", "\n",
     "  ", "\n",
     "9. **", "Borrow Limit Enforcement", "**: Each borrower has a maximum USD value they can   ", "\n",
     "   borrow, preventing systemic over-leverage.  ", "\n",
     "  ", "\n",
     "10. **", "Always-Accrued Interest", "**: \\u0060distribute_interest()\\u0060 called before all operations,   ", "\n",
     "    ensuring accurate accounting and preventing stale data manipulation.  ", "\n",
     "  ", "\n",
     "**YOUR INVESTIGATION MISSION:**  ", "\n",
     "  ", "\n",
     "Accept the premise of the security question and explore **all** relevant   ", "\n",
     "code paths, data structures, state transitions, and cross-contract   ", "\n",
     "interactions related to it. Do not settle for surface observations\\u2014trace   ", "\n",
     "execution flows through account creation \\u2192 collateral deposit \\u2192 borrowing   ", "\n",
     "\\u2192 LTV validation \\u2192 liquidation flows.  ", "\n",
     "  ", "\n",
     "Your goal is to find **one** concrete, exploitable vulnerability tied to   ", "\n",
     "the question that an attacker, liquidator, or malicious user could exploit.   ", "\n",
     "Focus on:   ", "\n",
     "  ", "\n",
     "* Business-logic flaws (incorrect validation, missing checks)  ", "\n",
     "* Mathematical errors (overflow, underflow, precision loss in LTV calculations)  ", "\n",
     "* Race conditions (concurrent account operations, share accounting)  ", "\n",
     "* Oracle manipulation (THORChain oracle price feeds)  ", "\n",
     "* Collateral calculation bugs (collateral ratios, LTV computations)  ", "\n",
     "* Liquidation vulnerabilities (premature liquidation, fee extraction)  ", "\n",
     "* Interest accrual manipulation (distribution calculations, rate determination)  ", "\n",
     "* Access control bypasses (sudo pattern violations, owner validation)  ", "\n",
     "* Cross-contract interaction bugs (registry-vault-account communication)  ", "\n",
     "* Asset accounting errors (share price manipulation, supply inconsistencies)  ", "\n",
     "  ", "\n",
     "**ATTACK SURFACE EXPLORATION:**  ", "\n",
     "  ", "\n",
     "1. **", "Account Operations", "** (\\u0060rujira-ghost-credit/src/contract.rs\\u0060, \\u0060rujira-ghost-credit/src/account.rs\\u0060):  ", "\n",
     "   - Owner validation bypasses in \\u0060ExecuteMsg::Account\\u0060  ", "\n",
     "   - LTV calculation errors during collateral/borrow operations  ", "\n",
     "   - Race conditions between account state updates and LTV checks  ", "\n",
     "   - Collateral ratio manipulation through asset valuation bugs  ", "\n",
     "   - Account transfer vulnerabilities affecting ownership model  ", "\n",
     "  ", "\n",
     "2. **", "Liquidation Mechanism", "** (\\u0060rujira-ghost-credit/src/contract.rs\\u0060):  ", "\n",
     "   - Premature liquidation through oracle manipulation  ", "\n",
     "   - Liquidation fee extraction exceeding protocol limits  ", "\n",
     "   - Partial liquidation leaving residual debt positions  ", "\n",
     "   - Liquidatee preference order manipulation  ", "\n",
     "   - Max slip limit bypasses enabling over-collateralization  ", "\n",
     "  ", "\n",
     "3. **", "Vault Operations", "** (\\u0060rujira-ghost-vault/src/contract.rs\\u0060, \\u0060rujira-ghost-vault/src/state.rs\\u0060):  ", "\n",
     "   - Share price manipulation through accounting errors  ", "\n",
     "   - Interest distribution bugs enabling unlimited minting  ", "\n",
     "   - Borrower limit bypasses through delegate borrowing  ", "\n",
     "   - Deposit/withdrawal accounting inconsistencies  ", "\n",
     "   - Protocol fee calculation errors  ", "\n",
     "  ", "\n",
     "4. **", "Access Control", "** (\\u0060rujira-account/src/contract.rs\\u0060, \\u0060rujira-ghost-vault/src/borrowers.rs\\u0060):  ", "\n",
     "   - Sudo pattern violations enabling unauthorized account control  ", "\n",
     "   - Borrower whitelist bypasses allowing unauthorized debt creation  ", "\n",
     "   - Admin privilege escalation through configuration manipulation  ", "\n",
     "   - Cross-contract authorization failures  ", "\n",
     "  ", "\n",
     "5. **", "Oracle Integration", "** (THORChain oracle usage):  ", "\n",
     "   - Price manipulation through oracle feed attacks  ", "\n",
     "   - Stale oracle data exploitation in LTV calculations  ", "\n",
     "   - Cross-chain price inconsistencies enabling arbitrage  ", "\n",
     "   - Oracle failure handling during liquidations  ", "\n",
     "  ", "\n",
     "6. **", "Mathematical Operations", "** (LTV, interest, share calculations):  ", "\n",
     "   - Precision loss in collateral-to-debt conversions  ", "\n",
     "   - Overflow/underflow in share supply calculations  ", "\n",
     "   - Rounding errors in interest distribution  ", "\n",
     "   - Collateral ratio computation bugs  ", "\n",
     "  ", "\n",
     "**RUJIRA-SPECIFIC ATTACK VECTORS:**  ", "\n",
     "  ", "\n",
     "- **LTV Calculation Manipulation**: Can attackers manipulate collateral valuations   ", "\n",
     "  or debt calculations to bypass \\u0060adjustment_threshold\\u0060 and create undercollateralized positions?  ", "\n",
     "- **Liquidation Race Conditions**: Can timing attacks between oracle updates and   ", "\n",
     "  liquidation triggers enable profitable liquidations at manipulated prices?  ", "\n",
     "- **Share Price Exploitation**: Can attackers manipulate share price calculations   ", "\n",
     "  in vaults to drain assets or extract protocol fees?  ", "\n",
     "- **Access Control Bypass**: Can attackers circumvent the sudo pattern or owner   ", "\n",
     "  validation to gain unauthorized control over credit accounts?  ", "\n",
     "- **Interest Accrual Bugs**: Can interest calculation errors enable unlimited   ", "\n",
     "  asset minting or interest avoidance through timing attacks?  ", "\n",
     "- **Cross-Contract State Inconsistencies**: Can state synchronization issues between   ", "\n",
     "  registry, vaults, and accounts create exploitable arbitrage opportunities?  ", "\n",
     "- **Collateral Ratio Haircut Bypass**: Can attackers exploit collateral ratio   ", "\n",
     "  calculations to over-value volatile assets and increase borrowing capacity?  ", "\n",
     "- **Liquidation Fee Extraction**: Can liquidators extract fees exceeding protocol   ", "\n",
     "  limits through calculation errors or state manipulation?  ", "\n",
     "- **Oracle Manipulation**: Can THORChain oracle manipulation enable profitable   ", "\n",
     "  liquidations or borrowing attacks?  ", "\n",
     "- **Account Ownership Transfer Bugs**: Can account transfer mechanisms be exploited   ", "\n",
     "  to bypass ownership controls or facilitate collateral theft?  ", "\n",
     "  ", "\n",
     "**TRUST MODEL:**  ", "\n",
     "  ", "\n",
     "**Trusted Roles**: THORChain oracle providers, Rujira Deployer Multisig, THORChain   ", "\n",
     "node operators. Do **not** assume these actors behave maliciously unless the   ", "\n",
     "question explicitly explores compromised oracle or governance scenarios.  ", "\n",
     "  ", "\n",
     "**Untrusted Actors**: Any user creating accounts, borrowing funds, liquidating   ", "\n",
     "positions, or attempting price manipulation. Focus your analysis on bugs   ", "\n",
     "exploitable by untrusted actors without requiring oracle compromise or   ", "\n",
     "governance collusion.  ", "\n",
     "  ", "\n",
     "**KNOWN ISSUES / EXCLUSIONS:**  ", "\n",
     "  ", "\n",
     "- Cryptographic primitives (CosmWasm crypto functions) are assumed secure  ", "\n",
     "- THORChain network security (assumed resistant to 51% attacks)  ", "\n",
     "- Oracle data accuracy (oracles are trusted to provide correct data)  ", "\n",
     "- Network-level attacks (DDoS, BGP hijacking, DNS poisoning)  ", "\n",
     "- CosmWasm runtime bugs unrelated to Rujira code  ", "\n",
     "- Social engineering, phishing, or key theft  ", "\n",
     "- Gas optimization, code style, missing comments  ", "\n",
     "- Precision loss <0.01% in fee calculations  ", "\n",
     "- Test file issues (tests are out of scope)  ", "\n",
     "- Market risk (price movements) unless caused by protocol bugs  ", "\n",
     "- MEV or front-running attacks unless enabled by protocol vulnerabilities  ", "\n",
     "  ", "\n",
     "**VALID IMPACT CATEGORIES (Code4rena Bug Bounty):**  ", "\n",
     "  ", "\n",
     "**Critical Severity**:  ", "\n",
     "- Direct loss of funds (theft of user collateral or protocol assets)  ", "\n",
     "- Permanent freezing of funds (fix requires protocol redeployment)  ", "\n",
     "- Protocol insolvency leading to systemic loss  ", "\n",
     "  ", "\n",
     "**High Severity**:  ", "\n",
     "- Temporary freezing of funds with economic loss  ", "\n",
     "- Systemic undercollateralization risks  ", "\n",
     "- Widespread liquidations due to protocol bugs  ", "\n",
     "  ", "\n",
     "**Medium Severity**:  ", "\n",
     "- Economic manipulation benefiting attackers  ", "\n",
     "- State inconsistencies requiring manual intervention  ", "\n",
     "- Interest or fee calculation errors  ", "\n",
     "- DoS vulnerabilities affecting core functionality  ", "\n",
     "  ", "\n",
     "**Low/QA (out of scope)**:  ", "\n",
     "- Minor precision loss (<0.01%)  ", "\n",
     "- Gas inefficiencies  ", "\n",
     "- Event emission or logging issues  ", "\n",
     "- Non-critical edge cases with no financial impact  ", "\n",
     "  ", "\n",
     "**OUTPUT REQUIREMENTS:**  ", "\n",
     "  ", "\n",
     "If you discover a valid vulnerability related to the security question,   ", "\n",
     "produce a **full report** following the format below. Your report must include:   ", "\n",
     "- Exact file paths and function names  ", "\n",
     "- Code quotations (actual snippets from the in-scope contracts)  ", "\n",
     "- Step-by-step exploitation path with realistic parameters  ", "\n",
     "- Clear explanation of which invariant is broken  ", "\n",
     "- Impact quantification (fund loss amount, collateral affected)  ", "\n",
     "- Likelihood assessment (attacker profile, preconditions, complexity)  ", "\n",
     "- Concrete recommendation with code fix  ", "\n",
     "- Proof of Concept (Rust test demonstrating the exploit)  ", "\n",
     "  ", "\n",
     "If **no** valid vulnerability emerges after thorough investigation, state exactly:   ", "\n",
     "\\u0060", "#NoVulnerability found for this question.", "\\u0060  ", "\n",
     "  ", "\n",
     "**Do not fabricate or exaggerate issues.** Only concrete, exploitable bugs with   ", "\n",
     "clear attack paths and realistic impact count.  ", "\n",
     "  ", "\n",
     "**Do not** report:   ", "\n",
     "- Known issues from previous Halborn audits  ", "\n",
     "- Out-of-scope problems (test files, CosmWasm bugs, crypto primitive breaks)  ", "\n",
     "- Theoretical vulnerabilities without clear attack path and PoC  ", "\n",
     "- Issues requiring trusted roles to behave maliciously  ", "\n",
     "- Minor optimizations, style issues, or low-severity findings  ", "\n",
     "  ", "\n",
     "**Focus on one high-quality finding** rather than multiple weak claims.  ", "\n",
     "  ", "\n",
     "**VALIDATION CHECKLIST (Before Reporting):**  ", "\n",
     "- [ ] Vulnerability lies within one of the in-scope contracts (not test/)  ", "\n",
     "- [ ] Exploitable by unprivileged attacker (no oracle/governance collusion required)  ", "\n",
     "- [ ] Attack path is realistic with correct data types and feasible parameters  ", "\n",
     "- [ ] Impact meets Critical, High, or Medium severity per Code4rena scope  ", "\n",
     "- [ ] PoC can be implemented as Rust test or transaction sequence  ", "\n",
     "- [ ] Issue breaks at least one documented invariant  ", "\n",
     "- [ ] Not a known exclusion from Halborn audits  ", "\n",
     "- [ ] Clear financial harm, collateral loss, or state divergence demonstrated  ", "\n",
     "  ", "\n",
     "---  ", "\n",
     "  ", "\n",
     "**AUDIT REPORT FORMAT** (if vulnerability found):  ", "\n",
     "  ", "\n",
     "Audit Report  ", "\n",
     "  ", "\n",
     "## Title   ", "\n",
     "The Title Of the Report   ", "\n",
     "  ", "\n",
     "## Summary  ", "\n",
     "A short summary of the issue, keep it brief.  ", "\n",
     "  ", "\n",
     "## Finding Description  ", "\n",
     "A more detailed explanation of the issue. Poorly written or incorrect findings may result in rejection and a decrease of reputation score.  ", "\n",
     "  ", "\n",
     "Describe which security guarantees it breaks and how it breaks them. If this bug does not automatically happen, showcase how a malicious input would propagate through the system to the part of the code where the issue occurs.  ", "\n",
     "  ", "\n",
     "## Impact Explanation  ", "\n",
     "Elaborate on why you've chosen a particular impact assessment.  ", "\n",
     "  ", "\n",
     "## Likelihood Explanation  ", "\n",
     "Explain how likely this is to occur and why.  ", "\n",
     "  ", "\n",
     "## Recommendation  ", "\n",
     "How can the issue be fixed or solved. Preferably, you can also add a snippet of the fixed code here.  ", "\n",
     "  ", "\n",
     "## Proof of Concept  ", "\n",
     "A proof of concept is normally required for Critical, High and Medium Submissions for reviewers under 80 reputation points. Please check the competition page for more details, otherwise your submission may be rejected by the judges.  ", "\n",
     "Very important the test function using their test must be provided in here and pls it must be able to compile and run successfully  ", "\n",
     "  ", "\n",
     "**Remember**: False positives harm credibility more than missed findings.  Assume claims are invalid until overwhelming evidence proves otherwise.  ", "\n",
     "  ", "\n",
     "**Now perform STRICT validation of the claim above.**  ", "\n",
     "  ", "\n",
     "**Output ONLY:**  ", "\n",
     "- A full audit report (if genuinely valid after passing **all** checks above) following the specified format  ", "\n",
     "- \\u0060", "#NoVulnerability found for this question.", "\\u0060 (if **any** check fails)  ", "\n",
     "  ", "\n",
     "**Be ruthlessly skeptical.  The bar for validity is EXTREMELY valid.**  ", "\n"
  >>

\* the f-string of lines 50-343: literal text and replacement fields, in order
qf_template ==
  << Lit(prompt_qf_1),
     Var("question"),
     Lit(prompt_qf_2) >>

\* src/questions.py lines 357-362, one source line per row
prompt_vf_1 ==
  <<
     "\n",
     "You are an **Elite DeFi Security Judge** with deep expertise in overcollateralized lending protocols, CosmWasm smart contracts, THORChain integration, and Code4rena bug bounty validation. Your ONLY task is **ruthless technical validation** of security claims against the Rujira codebase.", "\n",
     "\n",
     "Note: THORChain oracle providers and Rujira Deployer Multisig are trusted roles.", "\n",
     "\n",
     "**SECURITY CLAIM TO VALIDATE:**", "\n"
  >>

\* src/questions.py lines 363-690, one source line per row
prompt_vf_2 ==
  <<
     "\n",
     "\n",
     "================================================================================", "\n",
     "## **RUJIRA PROTOCOL VALIDATION FRAMEWORK**", "\n",
     "\n",
     "### **PHASE 1: IMMEDIATE DISQUALIFICATION CHECKS**", "\n",
     "Reject immediately (\\u0060", "#NoVulnerability", "\\u0060) if **ANY** apply:", "\n",
     "\n",
     "#### **A. Scope Violations**", "\n",
     "- \\u274C Affects files **not** in the three in-scope contract directories", "\n",
     "- \\u274C Targets any file under test directories (\\u0060*.test.*\\u0060, \\u0060tests/\\u0060) - tests are out of scope", "\n",
     "- \\u274C Claims about documentation, comments, code style, or logging (not security issues)", "\n",
     "- \\u274C Focuses on out-of-scope components: rujira-bow, rujira-fin, rujira-thorchain-swap, rujira-mint, rujira-pilot, rujira-staking, rujira-revenue", "\n",
     "\n",
     "**In-Scope Files (3 contracts):**", "\n",
     "- **rujira-account**: \\u0060contracts/rujira-account/src/**/*.rs\\u0060 (sudo pattern, isolated accounting)", "\n",
     "- **rujira-ghost-credit**: \\u0060contracts/rujira-ghost-credit/src/**/*.rs\\u0060 (registry, LTV enforcement, liquidations)", "\n",
     "- **rujira-ghost-vault**: \\u0060contracts/rujira-ghost-vault/src/**/*.rs\\u0060 (lending vaults, interest distribution)", "\n",
     "\n",
     "**Verify**: Check that every file path cited in the report matches exactly one of the in-scope contracts.", "\n",
     "\n",
     "#### **B. Threat Model Violations**", "\n",
     "- \\u274C Requires THORChain oracle manipulation or compromise (oracles are trusted)", "\n",
     "- \\u274C Assumes compromised Rujira Deployer Multisig (multisig is trusted role)", "\n",
     "- \\u274C Needs THORChain node operators to act maliciously (node operators are trusted)", "\n",
     "- \\u274C Requires attacker to compromise CosmWasm runtime or blockchain consensus", "\n",
     "- \\u274C Assumes cryptographic primitives (CosmWasm crypto functions) are broken", "\n",
     "- \\u274C Depends on network-level attacks: DDoS, BGP hijacking, DNS poisoning", "\n",
     "- \\u274C Relies on social engineering, phishing, key theft, or user operational security failures", "\n",
     "\n",
     "**Trusted Roles**: THORChain oracle providers provide price feeds; Rujira Deployer Multisig controls protocol parameters; THORChain node operators can pause contracts. Do **not** assume these actors behave maliciously.", "\n",
     "\n",
     "**Untrusted Actors**: Any user creating accounts, borrowing funds, liquidating positions, or attempting manipulation.", "\n",
     "\n",
     "#### **C. Known Issues / Accepted Risks** (from Halborn audits)", "\n",
     "- \\u274C Any finding already mentioned in Halborn audit reports", "\n",
     "- \\u274C Liquidations requiring off-chain triggering (by design, permissionless)", "\n",
     "- \\u274C Market risk from normal price movements (not protocol bugs)", "\n",
     "- \\u274C THORChain network-level issues or secured asset risks", "\n",
     "- \\u274C Precision loss <0.01% in calculations", "\n",
     "- \\u274C Gas/fee optimization issues without security impact", "\n",
     "\n",
     "#### **D. Non-Security Issues**", "\n",
     "- \\u274C Gas optimizations, performance improvements, or micro-optimizations", "\n",
     "- \\u274C Code style, naming conventions, or refactoring suggestions", "\n",
     "- \\u274C Missing events, logs, error messages, or better user experience", "\n",
     "- \\u274C Documentation improvements, README updates, or comment additions", "\n",
     "- \\u274C \"Best practices\" recommendations with no concrete exploit scenario", "\n",
     "- \\u274C Input validation preventing honest user mistakes unless it enables theft", "\n",
     "- \\u274C Minor precision errors with negligible financial impact (<0.01%)", "\n",
     "\n",
     "#### **E. Invalid Exploit Scenarios**", "\n",
     "- \\u274C Requires impossible inputs: negative amounts, invalid addresses, unrealistic prices", "\n",
     "- \\u274C Cannot be triggered through any realistic ExecuteMsg or SudoMsg call", "\n",
     "- \\u274C Depends on calling internal functions not exposed through any public API", "\n",
     "- \\u274C Relies on race conditions prevented by atomic operations or state checks", "\n",
     "- \\u274C Needs multiple coordinated transactions with no economic incentive", "\n",
     "- \\u274C Requires attacker to already possess the collateral they seek to steal", "\n",
     "- \\u274C Depends on block timestamp manipulation beyond reasonable bounds", "\n",
     "\n",
     "### **PHASE 2: RUJIRA-SPECIFIC DEEP CODE VALIDATION**", "\n",
     "\n",
     "#### **Step 1: TRACE COMPLETE EXECUTION PATH THROUGH LENDING ARCHITECTURE**", "\n",
     "\n",
     "**Rujira Flow Patterns:**", "\n",
     "\n",
     "1. **", "Account Creation Flow", "**:", "\n",
     "   User calls \\u0060rujira-ghost-credit::ExecuteMsg::CreateAccount\\u0060 \\u2192 creates new \\u0060rujira-account\\u0060 instance \\u2192 registry set as admin \\u2192 sudo-only access established", "\n",
     "\n",
     "2. **", "Collateral Deposit Flow", "**:", "\n",
     "   User sends tokens to account \\u2192 calls \\u0060ExecuteMsg::Account(AccountMsg::Deposit)\\u0060 \\u2192 registry validates ownership \\u2192 sudo call to account \\u2192 tokens held in isolated accounting", "\n",
     "\n",
     "3. **", "Borrowing Flow", "**:", "\n",
     "   User calls \\u0060ExecuteMsg::Account(AccountMsg::Borrow)\\u0060 \\u2192 registry validates ownership & LTV \\u2192 sudo call to account \\u2192 account calls \\u0060BorrowerMsg::Borrow\\u0060 on vault \\u2192 vault checks borrower whitelist & limits \\u2192 tokens transferred to account", "\n",
     "\n",
     "4. **", "Liquidation Flow", "**:", "\n",
     "   Liquidator calls \\u0060ExecuteMsg::Liquidate\\u0060 \\u2192 registry checks \\u0060adjusted_ltv >= liquidation_threshold\\u0060 \\u2192 calculates fees & repayment \\u2192 sudo calls to close positions \\u2192 liquidator receives bonus", "\n",
     "\n",
     "For each claim, reconstruct the entire execution path:", "\n",
     "\n",
     "1. **", "Identify Entry Point", "**: Which user-facing function is called? (\\u0060ExecuteMsg::Account\\u0060, \\u0060ExecuteMsg::Liquidate\\u0060, etc.)", "\n",
     "2. **", "Follow Internal Calls", "**: Trace through all function calls, including:", "\n",
     "   - Ownership validation in \\u0060rujira-ghost-credit\\u0060", "\n",
     "   - LTV calculations in \\u0060account.rs\\u0060", "\n",
     "   - Sudo forwarding to \\u0060rujira-account\\u0060", "\n",
     "   - Vault operations in \\u0060rujira-ghost-vault\\u0060", "\n",
     "3. **", "State Before Exploit", "**: Document initial state (collateral balances, debt, LTV ratios)", "\n",
     "4. **", "State Transitions", "**: Enumerate all changes (collateral movements, debt updates, share minting/burning)", "\n",
     "5. **", "Check Protections", "**: Verify if ownership checks, LTV validation, or mathematical constraints prevent the exploit", "\n",
     "6. **", "Final State", "**: Show how the exploit results in unauthorized state (collateral loss, undercollateralization, share manipulation)", "\n",
     "\n",
     "#### **Step 2: VALIDATE EVERY CLAIM WITH CODE EVIDENCE**", "\n",
     "\n",
     "For **each assertion** in the report, demand:", "\n",
     "\n",
     "**\\u2705 Required Evidence:**", "\n",
     "- Exact file path and line numbers (e.g., \\u0060rujira-ghost-credit/src/account.rs:152-191\\u0060) within in-scope contracts", "\n",
     "- Direct Rust code quotes showing the vulnerable logic", "\n",
     "- Call traces with actual parameter values demonstrating how execution reaches the vulnerable line", "\n",
     "- Calculations showing how collateral, debt, or LTV ratios change incorrectly", "\n",
     "- References to specific invariant violations", "\n",
     "\n",
     "**\\U0001F6A9 RED FLAGS (indicate INVALID):**", "\n",
     "\n",
     "1. **", "\"Missing Validation\" Claims", "**:", "\n",
     "   - \\u274C Invalid unless report shows input bypasses *all* validation layers:", "\n",
     "     - \\u0060ExecuteMsg::Account\\u0060 ownership checks in \\u0060rujira-ghost-credit\\u0060", "\n",
     "     - LTV validation in \\u0060account.rs\\u0060", "\n",
     "     - Vault borrower whitelist checks", "\n",
     "     - Sudo pattern restrictions in \\u0060rujira-account\\u0060", "\n",
     "   - \\u2705 Valid if a specific input type genuinely has no validation path", "\n",
     "\n",
     "2. **", "\"LTV Calculation\" Claims", "**:", "\n",
     "   - \\u274C Invalid unless report demonstrates:", "\n",
     "     - \\u0060adjusted_ltv\\u0060 calculation produces incorrect values", "\n",
     "     - Attacker can bypass \\u0060adjustment_threshold\\u0060 or \\u0060liquidation_threshold\\u0060", "\n",
     "     - Specific mathematical error in collateral ratio computation", "\n",
     "   - \\u2705 Valid if LTV calculations can be manipulated for undercollateralization", "\n",
     "\n",
     "3. **", "\"Share Price Manipulation\" Claims", "**:", "\n",
     "   - \\u274C Invalid unless report demonstrates:", "\n",
     "     - \\u0060totalAssets()\\u0060 or \\u0060totalSupply()\\u0060 can be manipulated in vault", "\n",
     "     - Share price decreases unexpectedly allowing asset drainage", "\n",
     "     - Attacker can extract value through share accounting errors", "\n",
     "   - \\u2705 Valid if share accounting enables fund extraction", "\n",
     "\n",
     "4. **", "\"Access Control Bypass\" Claims", "**:", "\n",
     "   - \\u274C Invalid unless report demonstrates:", "\n",
     "     - Sudo pattern can be circumvented in \\u0060rujira-account\\u0060", "\n",
     "     - Ownership validation can be bypassed in \\u0060rujira-ghost-credit\\u0060", "\n",
     "     - Borrower whitelist can be bypassed in vault", "\n",
     "   - \\u2705 Valid if access controls can be circumvented", "\n",
     "\n",
     "5. **", "\"Liquidation Vulnerability\" Claims", "**:", "\n",
     "   - \\u274C Invalid unless report demonstrates:", "\n",
     "     - Liquidation can be triggered prematurely or incorrectly", "\n",
     "     - Fee extraction exceeds protocol limits", "\n",
     "     - Liquidation process leaves residual debt or over-sells collateral", "\n",
     "   - \\u2705 Valid if liquidation mechanism can be exploited", "\n",
     "\n",
     "6. **", "\"Interest Accrual Bugs\" Claims", "**:", "\n",
     "   - \\u274C Invalid unless report demonstrates:", "\n",
     "     - \\u0060distribute_interest()\\u0060 miscalculates interest or shares", "\n",
     "     - Interest index fails to update correctly", "\n",
     "     - Attacker can mint unlimited shares through interest manipulation", "\n",
     "   - \\u2705 Valid if interest calculations enable fund extraction", "\n",
     "\n",
     "7. **", "\"Collateral Ratio\" Claims", "**:", "\n",
     "   - \\u274C Invalid unless report demonstrates:", "\n",
     "     - Collateral ratio haircuts can be bypassed", "\n",
     "     - Asset valuation can be manipulated for higher borrowing capacity", "\n",
     "     - Cross-collateral calculations are incorrect", "\n",
     "   - \\u2705 Valid if collateral calculations enable undercollateralization", "\n",
     "\n",
     "8. **", "\"Mathematical Overflow\" Claims", "**:", "\n",
     "   - \\u274C Invalid unless report demonstrates:", "\n",
     "     - Specific arithmetic operation overflows/underflows", "\n",
     "     - Overflow causes incorrect LTV or share calculations", "\n",
     "     - Attacker can exploit overflow for fund theft", "\n",
     "   - \\u2705 Valid if mathematical errors enable fund loss", "\n",
     "\n",
     "#### **Step 3: CROSS-REFERENCE WITH TEST SUITE**", "\n",
     "\n",
     "Rujira's test suite includes comprehensive tests (out of scope but informative). Ask:", "\n",
     "\n",
     "1. **", "Existing Coverage", "**: Do current tests handle the scenario? Check tests like:", "\n",
     "   - \\u0060rujira-ghost-credit/src/tests/contract.rs\\u0060 - account lifecycle", "\n",
     "   - Vault tests for interest distribution and borrowing", "\n",
     "   - Account tests for sudo pattern and isolation", "\n",
     "\n",
     "2. **", "Test Gaps", "**: Is there an obvious gap that would allow the exploit? If scenario is untested, suggest adding test but do **not** assume vulnerability.", "\n",
     "\n",
     "3. **", "Invariant Tests", "**: Would existing invariant checks catch the bug? Tests verify:", "\n",
     "   - Owner-gated account operations", "\n",
     "   - Post-adjustment LTV checks", "\n",
     "   - Safe liquidation outcomes", "\n",
     "   - Always-accrued interest", "\n",
     "\n",
     "4. **", "PoC Feasibility", "**: Can the report's PoC be implemented as a Rust test using existing contracts without modifying core code?", "\n",
     "\n",
     "**Test Case Realism Check**: PoCs must use realistic account structures, valid collateral amounts, and respect protocol constraints.", "\n",
     "\n",
     "### **PHASE 3: IMPACT & EXPLOITABILITY VALIDATION**", "\n",
     "\n",
     "#### **Impact Must Be CONCRETE and ALIGN WITH CODE4RENA SCOPE**", "\n",
     "\n",
     "**\\u2705 Valid CRITICAL Severity Impacts (per Code4rena scope):**", "\n",
     "\n",
     "1. **", "Direct Loss of Funds (Critical)", "**:", "\n",
     "   - Theft of user collateral from credit accounts", "\n",
     "   - Theft of vault assets through share manipulation", "\n",
     "   - Unauthorized borrowing from vaults", "\n",
     "   - Collateral drainage through mathematical exploits", "\n",
     "   - Example: \"Share price manipulation allows attacker to drain 1000 USDC from vault\"", "\n",
     "\n",
     "2. **", "Protocol Insolvency (Critical)", "**:", "\n",
     "   - Systemic undercollateralization causing protocol-wide losses", "\n",
     "   - LTV calculation errors enabling mass undercollateralization", "\n",
     "   - Share supply overflow preventing all operations", "\n",
     "   - Example: \"LTV calculation bug allows all accounts to become undercollateralized simultaneously\"", "\n",
     "\n",
     "3. **", "Permanent Freezing of Funds (Critical)", "**:", "\n",
     "   - Funds locked with no transaction able to unlock them", "\n",
     "   - Account bricking preventing collateral withdrawal", "\n",
     "   - Share supply overflow preventing withdrawals", "\n",
     "   - Example: \"Account creation bug locks 500 BTC collateral permanently\"", "\n",
     "\n",
     "**\\u2705 Valid HIGH Severity Impacts:**", "\n",
     "\n",
     "4. **", "Temporary Freezing with Economic Loss (High)", "**:", "\n",
     "   - Funds temporarily frozen causing economic damage", "\n",
     "   - Widespread liquidations due to protocol bugs", "\n",
     "   - Systemic undercollateralization risks", "\n",
     "   - Example: \"Liquidation bug causes 100 accounts to be liquidated unnecessarily\"", "\n",
     "\n",
     "**\\u2705 Valid MEDIUM Severity Impacts:**", "\n",
     "\n",
     "5. **", "Economic Manipulation (Medium)", "**:", "\n",
     "   - Interest rate manipulation benefiting attackers", "\n",
     "   - Liquidation bonus extraction beyond intended amounts", "\n",
     "   - State inconsistencies requiring manual intervention", "\n",
     "   - Example: \"Interest accrual bug allows attacker to extract 10 ETH in excess interest\"", "\n",
     "\n",
     "6. **", "State Inconsistencies (Medium)", "**:", "\n",
     "   - Interest or fee calculation errors", "\n",
     "   - DoS vulnerabilities affecting core functionality", "\n",
     "   - LTV calculation inconsistencies", "\n",
     "   - Example: \"LTV calculation bug causes 5% error in collateral requirements\"", "\n",
     "\n",
     "**\\u274C Invalid \"Impacts\":**", "\n",
     "\n",
     "- User withdraws their own collateral (normal protocol operation)", "\n",
     "- Attacker loses their own funds through self-draining (not an exploit)", "\n",
     "- Theoretical cryptographic weaknesses without practical exploit", "\n",
     "- General market risk (price movements) unless caused by protocol bugs", "\n",
     "- \"Could be problematic if...\" statements without concrete exploit path", "\n",
     "- Minor fee overpayment or underpayment (<0.1% of transaction value)", "\n",
     "- Precision loss <0.01% across reasonable transaction volumes", "\n",
     "\n",
     "#### **Likelihood Reality Check**", "\n",
     "\n",
     "Assess exploit feasibility:", "\n",
     "\n",
     "1. **", "Attacker Profile", "**:", "\n",
     "   - Any user with THORChain secured assets to deposit? \\u2705 Likely", "\n",
     "   - Liquidator monitoring for undercollateralized accounts? \\u2705 Possible", "\n",
     "   - Attacker with ability to manipulate THORChain oracles? \\u274C Impossible (trusted role)", "\n",
     "   - Compromised Rujira Deployer Multisig? \\u274C Impossible (trusted role)", "\n",
     "\n",
     "2. **", "Preconditions", "**:", "\n",
     "   - Normal market operation? \\u2705 High likelihood", "\n",
     "   - High vault utilization? \\u2705 Possible during volatile periods", "\n",
     "   - Specific account structure (multiple collateral types)? \\u2705 Attacker-controlled", "\n",
     "   - Specific oracle state (price movements)? \\u2705 Attacker can time submission", "\n",
     "   - Network congestion or high gas prices? \\u2705 Possible but not required", "\n",
     "\n",
     "3. **", "Execution Complexity", "**:", "\n",
     "   - Single ExecuteMsg call? \\u2705 Simple", "\n",
     "   - Multiple coordinated transactions? \\u2705 Moderate (attacker controls)", "\n",
     "   - Complex account with multiple collateral types? \\u2705 Attacker can create", "\n",
     "   - Requires precise timing or front-running? \\u26A0\\uFE0F Higher complexity", "\n",
     "   - Requires mathematical precision? \\u2705 Attacker can calculate", "\n",
     "\n",
     "4. **", "Economic Cost", "**:", "\n",
     "   - Collateral deposit required? \\u2705 Attacker-determined (can be minimal)", "\n",
     "   - Gas costs for transactions? \\u2705 Moderate", "\n",
     "   - Potential profit vs. cost? \\u2705 Must be positive for valid exploit", "\n",
     "   - Liquidation capital required? \\u2705 Varies by opportunity", "\n",
     "\n",
     "5. **", "Combined Probability", "**:", "\n",
     "   - Multiply probabilities of all conditions", "\n",
     "   - If resulting likelihood <0.1% with no economic incentive \\u2192 Invalid", "\n",
     "   - If exploit is profitable and feasible \\u2192 Valid", "\n",
     "\n",
     "### **PHASE 4: FINAL VALIDATION CHECKLIST**", "\n",
     "\n",
     "Before accepting any vulnerability, verify:", "\n",
     "\n",
     "1. **", "Scope Compliance", "**: Vulnerability affects only the 3 in-scope contracts", "\n",
     "2. **", "Not Known Issue", "**: Check against Halborn audit reports", "\n",
     "3. **", "Trust Model", "**: Exploit doesn't require THORChain oracle or Deployer Multisig compromise", "\n",
     "4. **", "Impact Severity", "**: Meets Critical/High/Medium per Code4rena scope", "\n",
     "5. **", "Economic Incentive", "**: Attack must be profitable for attacker", "\n",
     "6. **", "Technical Feasibility", "**: Exploit can be implemented without protocol modifications", "\n",
     "7. **", "Invariant Violation", "**: Clearly breaks one of the 10 documented Rujira invariants", "\n",
     "8. **", "PoC Completeness", "**: Rust test runs successfully against unmodified codebase", "\n",
     "\n",
     "**Remember**: False positives harm credibility. Assume claims are invalid until overwhelming evidence proves otherwise.", "\n",
     "\n",
     "---", "\n",
     "\n",
     "**AUDIT REPORT FORMAT** (if vulnerability found):  ", "\n",
     "  ", "\n",
     "Audit Report  ", "\n",
     "  ", "\n",
     "## Title   ", "\n",
     "The Title Of the Report   ", "\n",
     "  ", "\n",
     "## Summary  ", "\n",
     "A short summary of the issue, keep it brief.  ", "\n",
     "  ", "\n",
     "## Finding Description  ", "\n",
     "A more detailed explanation of the issue. Poorly written or incorrect findings may result in rejection and a decrease of reputation score.  ", "\n",
     "  ", "\n",
     "Describe which security guarantees it breaks and how it breaks them. If this bug does not automatically happen, showcase how a malicious input would propagate through the system to the part of the code where the issue occurs.  ", "\n",
     "  ", "\n",
     "## Impact Explanation  ", "\n",
     "Elaborate on why you've chosen a particular impact assessment.  ", "\n",
     "  ", "\n",
     "## Likelihood Explanation  ", "\n",
     "Explain how likely this is to occur and why.  ", "\n",
     "  ", "\n",
     "## Recommendation  ", "\n",
     "How can the issue be fixed or solved. Preferably, you can also add a snippet of the fixed code here.  ", "\n",
     "  ", "\n",
     "## Proof of Concept  ", "\n",
     "A proof of concept is normally required for Critical, High and Medium Submissions for reviewers under 80 reputation points. Please check the competition page for more details, otherwise your submission may be rejected by the judges.  ", "\n",
     "Very important the test function using their test must be provided in here and pls it must be able to compile and run successfully  ", "\n",
     "  ", "\n",
     "**Remember**: False positives harm credibility more than missed findings.  Assume claims are invalid until overwhelming evidence proves otherwise.  ", "\n",
     "  ", "\n",
     "**Now perform STRICT validation of the claim above.**  ", "\n",
     "  ", "\n",
     "**Output ONLY:**  ", "\n",
     "- A full audit report (if genuinely valid after passing **all** checks above) following the specified format  ", "\n",
     "- \\u0060", "#NoVulnerability found for this question.", "\\u0060 (if **any** check fails)  very important ", "\n",
     "  ", "\n",
     "**Be ruthlessly skeptical.  The bar for validity is EXTREMELY valid.**  ", "\n"
  >>

\* a validation rubric whose output contract names a shorter sentinel than the
\* audit prompt does
vf_template_short_sentinel ==
  << Lit(prompt_vf_1),
     Var("report"),
     Lit([i \in DOMAIN prompt_vf_2 |->
            IF prompt_vf_2[i] = "#NoVulnerability found for this question."
              THEN "#NoVulnerability found."
            ELSE prompt_vf_2[i]]) >>

\* the f-string of lines 357-691: literal text and replacement fields, in order
vf_template ==
  << Lit(prompt_vf_1),
     Var("report"),
     Lit(prompt_vf_2) >>

\* src/questions.py lines 706-717, one source line per row
prompt_qg_1 ==
  <<
     "\n",
     "# **Generate 150+ Targeted Security Audit Questions for Rujira Protocol**", "\n",
     "\n",
     "## **Context**", "\n",
     "\n",
     "The target project is **Rujira**, an overcollateralized lending protocol built on THORChain using CosmWasm. The protocol enables users to deposit THORChain secured assets as collateral and borrow against them through a sophisticated three-contract system. Unlike traditional lending protocols, Rujira employs isolated accounting through individual \\u0060rujira-account\\u0060 instances, orchestrated by a \\u0060rujira-ghost-credit\\u0060 registry, with assets held in \\u0060rujira-ghost-vault\\u0060 lending pools. The protocol maintains solvency through dynamic LTV calculations, collateral ratio haircuts, and permissionless liquidation mechanisms, while supporting complex features like multi-collateral accounts, cross-collateralization, and adaptive interest rates.", "\n",
     "\n",
     "Rujira's architecture includes critical components for account creation, collateral management, borrowing operations, liquidation handling, interest accrual, and access control through the sudo pattern. The protocol maintains financial integrity through strict ownership validation, real-time LTV enforcement, and comprehensive asset accounting across all three contracts.", "\n",
     "\n",
     "## **Scope**", "\n",
     "\n",
     "**CRITICAL TARGET FILE**: Focus question generation EXCLUSIVELY on \\u0060"
  >>

\* src/questions.py lines 717-719, one source line per row
prompt_qg_2 ==
  <<
     "\\u0060", "\n",
     "\n",
     "Note: The questions must be generated from **\\u0060"
  >>

\* src/questions.py lines 719-742, one source line per row
prompt_qg_3 ==
  <<
     "\\u0060** only. If you cannot generate enough questions from this single file, provide as many quality questions as you can extract from the file's logic and interactions. **DO NOT return empty results** - give whatever questions you can derive from the target file.", "\n",
     "\n",
     "If you cannot reach 150 questions from this file alone, generate as many high-quality questions as the file's complexity allows (minimum target: 50-100 questions for large critical files, 20-50 for smaller files).", "\n",
     "\n",
     "**Full Context - 3 In-Scope Files (for reference only):**", "\n",
     "If a file is more than a thousand lines you can generate as many as 300+ questions as you can, but always generate as many as you can - don't give other responses.", "\n",
     "If there are math logic functions, also generate as many questions based on all the math logic among the questions you're giving me to cover all scope and entry points.", "\n",
     "\n",
     "### **Core Protocol Contracts - 3 files**", "\n",
     "\n",
     "\\u0060\\u0060\\u0060python", "\n",
     "core_files = [", "\n",
     "    \"", "contracts/rujira-account/src/contract.rs", "\",        # sudo pattern, isolated accounting", "\n",
     "    \"", "contracts/rujira-account/src/execute.rs", "\",         # message forwarding", "\n",
     "    \"", "contracts/rujira-ghost-credit/src/contract.rs", "\",   # registry, orchestration", "\n",
     "    \"", "contracts/rujira-ghost-credit/src/account.rs", "\",     # LTV calculations", "\n",
     "    \"", "contracts/rujira-ghost-credit/src/config.rs", "\",      # protocol parameters", "\n",
     "    \"", "contracts/rujira-ghost-vault/src/contract.rs", "\",     # vault operations", "\n",
     "    \"", "contracts/rujira-ghost-vault/src/state.rs", "\",        # share accounting", "\n",
     "    \"", "contracts/rujira-ghost-vault/src/borrowers.rs", "\",    # borrower limits", "\n",
     "]", "\n",
     "\\u0060\\u0060\\u0060", "\n",
     "\n",
     "**Total: 8 files in full scope (but focus ONLY on \\u0060"
  >>

\* src/questions.py lines 742-888, one source line per row
prompt_qg_4 ==
  <<
     "\\u0060 for this generation)**", "\n",
     "\n",
     "---", "\n",
     "\n",
     "## **Rujira Protocol Architecture & Layers**", "\n",
     "\n",
     "### **1. Account Management Layer** (\\u0060rujira-account\\u0060)", "\n",
     "\n",
     "- **Sudo Pattern**: \\u0060rujira-account\\u0060 instances only accept \\u0060sudo\\u0060 calls from registry, rejecting all direct \\u0060execute\\u0060 calls", "\n",
     "- **Isolated Accounting**: Each account is a separate contract instance with siloed balance tracking", "\n",
     "- **Message Forwarding**: Registry forwards operations through \\u0060SudoMsg\\u0060 to account contracts", "\n",
     "- **Access Control**: Only registry can drive account-level operations and token transfers", "\n",
     "\n",
     "### **2. Credit Registry Layer** (\\u0060rujira-ghost-credit\\u0060)", "\n",
     "\n",
     "- **Account Orchestration**: Registry coordinates all account operations through \\u0060ExecuteMsg::Account\\u0060", "\n",
     "- **LTV Enforcement**: Real-time loan-to-value calculations with \\u0060adjusted_ltv\\u0060 checks", "\n",
     "- **Liquidation Management**: Permissionless liquidation triggers and queue processing", "\n",
     "- **Vault Whitelisting**: Only approved vaults can be used for borrowing operations", "\n",
     "- **Configuration Validation**: All parameter changes validated through \\u0060Config::validate\\u0060", "\n",
     "\n",
     "### **3. Lending Vault Layer** (\\u0060rujira-ghost-vault\\u0060)", "\n",
     "\n",
     "- **Share-Based Accounting**: ERC4626-style vault with \\u0060totalAssets()\\u0060 and \\u0060totalSupply()\\u0060 tracking", "\n",
     "- **Interest Distribution**: Always-accrued interest model with \\u0060distribute_interest()\\u0060 on every operation", "\n",
     "- **Borrower Management**: Whitelisted borrowers with USD value limits per borrower", "\n",
     "- **Asset Management**: Deposit, withdraw, borrow, and repay operations with proper accounting", "\n",
     "\n",
     "---", "\n",
     "\n",
     "## **Critical Security Invariants**", "\n",
     "\n",
     "### **Access Control & Ownership**", "\n",
     "\n",
     "1. **", "Owner-Gated Accounts", "**: Only \\u0060account.owner\\u0060 can initiate operations via \\u0060ExecuteMsg::Account\\u0060", "\n",
     "2. **", "Admin-Only Accounts", "**: \\u0060rujira-account\\u0060 instances only accept \\u0060sudo\\u0060 calls from registry", "\n",
     "3. **", "Governance-Whitelisted Borrowers", "**: Only pre-approved contracts can borrow from vaults", "\n",
     "4. **", "Whitelisted Vault Access", "**: Registry only routes to vaults listed in \\u0060collateral_ratios\\u0060", "\n",
     "\n",
     "### **LTV & Solvency**", "\n",
     "\n",
     "5. **", "Post-Adjustment LTV Check", "**: After any owner operation, \\u0060adjusted_ltv\\u0060 must be \\u0060< adjustment_threshold\\u0060", "\n",
     "6. **", "Safe Liquidation Outcomes", "**: Liquidations only trigger when \\u0060adjusted_ltv >= liquidation_threshold\\u0060", "\n",
     "7. **", "Borrow Limit Enforcement", "**: Each borrower has a maximum USD value they can borrow", "\n",
     "8. **", "Bounded Config Values", "**: All configuration changes validated via \\u0060Config::validate\\u0060", "\n",
     "\n",
     "### **Financial Integrity**", "\n",
     "\n",
     "9. **", "Fee-First Liquidation Repay", "**: Protocol and liquidator fees extracted before debt repayment", "\n",
     "10. **", "Always-Accrued Interest", "**: \\u0060distribute_interest()\\u0060 called before all operations", "\n",
     "11. **", "Collateral Ratio Haircuts", "**: Each collateral type has a \\u0060collateral_ratio\\u0060 haircut for risk management", "\n",
     "12. **", "Cross-Collateral Limits", "**: Cross-buffer ratio scales conservatively with utilization", "\n",
     "\n",
     "---", "\n",
     "\n",
     "## **In-Scope Vulnerability Categories** (from Code4rena)", "\n",
     "\n",
     "Focus questions on vulnerabilities that lead to these impacts:", "\n",
     "\n",
     "### **Critical Severity**", "\n",
     "\n",
     "1. **", "Direct loss of funds", "**", "\n",
     "   - LTV calculation errors allowing undercollateralized borrowing", "\n",
     "   - Share price manipulation allowing asset drainage from vaults", "\n",
     "   - Interest accrual bugs causing unlimited asset minting", "\n",
     "   - Access control bypasses enabling unauthorized borrowing", "\n",
     "\n",
     "2. **", "Permanent freezing of funds", "**", "\n",
     "   - Account bricking preventing collateral withdrawal", "\n",
     "   - Share supply overflow preventing all vault operations", "\n",
     "   - Interest state corruption blocking position closures", "\n",
     "   - Invalid account states locking funds permanently", "\n",
     "\n",
     "3. **", "Protocol insolvency", "**", "\n",
     "   - Collateral requirement calculation errors", "\n",
     "   - Liquidation bonus extraction causing protocol loss", "\n",
     "   - Cross-collateralization bugs causing systemic undercollateralization", "\n",
     "   - Premium settlement errors causing fund drainage", "\n",
     "\n",
     "### **High Severity**", "\n",
     "\n",
     "4. **", "Temporary freezing of funds", "**", "\n",
     "   - Liquidation failures preventing account closures", "\n",
     "   - Oracle stale prices blocking all operations", "\n",
     "   - Interest accrual overflow preventing withdrawals", "\n",
     "   - Account transfer restrictions bypassed incorrectly", "\n",
     "\n",
     "5. **", "Incorrect protocol behavior", "**", "\n",
     "   - LTV calculation errors producing wrong solvency results", "\n",
     "   - Interest distribution bugs favoring certain users", "\n",
     "   - Borrower limit bypasses through delegate borrowing", "\n",
     "   - Vault configuration errors", "\n",
     "\n",
     "### **Medium Severity**", "\n",
     "\n",
     "6. **", "Economic manipulation", "**", "\n",
     "   - Interest rate manipulation through utilization attacks", "\n",
     "   - Liquidation bonus extraction beyond intended amounts", "\n",
     "   - Share price manipulation in vaults", "\n",
     "   - Gas griefing through expensive operations", "\n",
     "\n",
     "7. **", "State inconsistencies", "**", "\n",
     "   - Asset accounting mismatches between contracts", "\n",
     "   - Interest index calculation inaccuracies", "\n",
     "   - Account balance tracking errors", "\n",
     "   - Oracle state divergence", "\n",
     "\n",
     "---", "\n",
     "\n",
     "## **Valid Impact Categories (Restated for Rujira)**", "\n",
     "\n",
     "### **Critical**", "\n",
     "\n",
     "- Direct theft of user collateral or vault assets", "\n",
     "- Permanent fund freezing requiring protocol redeployment", "\n",
     "- Protocol insolvency leading to systemic loss", "\n",
     "- Unlimited asset minting or share price collapse", "\n",
     "\n",
     "### **High**", "\n",
     "\n",
     "- Temporary fund freezing with economic loss", "\n",
     "- Systemic undercollateralization risks", "\n",
     "- Widespread account liquidations due to bugs", "\n",
     "- Access control bypasses enabling theft", "\n",
     "\n",
     "### **Medium**", "\n",
     "\n",
     "- Economic manipulation benefiting attackers", "\n",
     "- State inconsistencies requiring manual intervention", "\n",
     "- Interest or fee calculation errors", "\n",
     "- DoS vulnerabilities affecting core functionality", "\n",
     "\n",
     "### **Out of Scope**", "\n",
     "\n",
     "- Gas optimization inefficiencies", "\n",
     "- UI/UX issues in frontends", "\n",
     "- Market risk (price movements)", "\n",
     "- THORChain network failures", "\n",
     "- MEV or front-running attacks", "\n",
     "- Theoretical attacks without economic impact", "\n",
     "\n",
     "---", "\n",
     "\n",
     "## **Goals for Question Generation**", "\n",
     "\n",
     "1. **", "Real Exploit Scenarios", "**: Each question describes a plausible attack an attacker, liquidator, or malicious user could perform", "\n",
     "2. **", "Concrete & Actionable", "**: Reference specific functions, variables, or logic flows in \\u0060"
  >>

\* src/questions.py lines 888-891, one source line per row
prompt_qg_5 ==
  <<
     "\\u0060", "\n",
     "3. **", "High Impact", "**: Prioritize questions leading to Critical/High/Medium impacts per Code4rena scope", "\n",
     "4. **", "Deep Financial Logic", "**: Focus on subtle state transitions, cross-contract interactions, rounding errors, LTV calculation bugs", "\n",
     "5. **", "Breadth Within Target File", "**: Cover all major functions, edge cases, and state-changing operations in \\u0060"
  >>

\* src/questions.py lines 891-893, one source line per row
prompt_qg_6 ==
  <<
     "\\u0060", "\n",
     "6. **", "Respect Trust Model", "**: THORChain oracles and Rujira Deployer Multisig are trusted; focus on attacks by regular users", "\n",
     "7. **", "No Generic Questions", "**: Avoid \"are there access control issues?\" \\u2192 Instead: \"In \\u0060"
  >>

\* src/questions.py lines 893-903, one source line per row
prompt_qg_7 ==
  <<
     ": functionName()\\u0060, if condition X occurs, can attacker exploit Y to cause Z impact?\"", "\n",
     "\n",
     "---", "\n",
     "\n",
     "## **Question Format Template**", "\n",
     "\n",
     "Each question MUST follow this Python list format:", "\n",
     "\n",
     "\\u0060\\u0060\\u0060python", "\n",
     "questions = [", "\n",
     "    \"", "[File: "
  >>

\* src/questions.py lines 903-905, one source line per row
prompt_qg_8 ==
  <<
     "]", " [Function: functionName()", "]", " [Vulnerability Type", "]", " Specific question describing attack vector, preconditions, and impact linking to Code4rena categories?\",", "\n",
     "    ", "\n",
     "    \"", "[File: "
  >>

\* src/questions.py lines 905-926, one source line per row
prompt_qg_9 ==
  <<
     "]", " [Function: anotherFunction()", "]", " [Vulnerability Type", "]", " Another specific question with concrete exploit scenario?\",", "\n",
     "    ", "\n",
     "    # ... continue with all generated questions", "\n",
     "]", "\n",
     "\\u0060\\u0060\\u0060", "\n",
     "\n",
     "**Example Format** (if target_file is \\u0060contracts/rujira-ghost-credit/src/contract.rs\\u0060):", "\n",
     "\\u0060\\u0060\\u0060python", "\n",
     "questions = [", "\n",
     "    \"", "[File: ", "contracts/rujira-ghost-credit/src/contract.rs", "]", " [Function: execute()", "]", " [LTV bypass", "]", " Can an attacker craft a malicious AccountMsg sequence that passes initial ownership checks but manipulates collateral prices between operations to bypass adjusted_ltv validation, allowing them to open undercollateralized positions and potentially drain vault funds?\",", "\n",
     "    ", "\n",
     "    \"", "[File: ", "contracts/rujira-ghost-credit/src/contract.rs", "]", " [Function: liquidate()", "]", " [Liquidation manipulation", "]", " Does the liquidation queue correctly handle edge cases where asset prices fluctuate during liquidation, potentially allowing liquidators to extract higher bonuses than intended or leaving accounts in unsafe states?\",", "\n",
     "    ", "\n",
     "    \"", "[File: ", "contracts/rujira-ghost-credit/src/contract.rs", "]", " [Function: create_account()", "]", " [Access control", "]", " Can an attacker bypass the account creation validation to create accounts with invalid configurations, potentially leading to account bricking or unauthorized access to borrowed funds?\",", "\n",
     "]", "\n",
     "\\u0060\\u0060\\u0060", "\n",
     "\n",
     "---", "\n",
     "\n",
     "## **Output Requirements**", "\n",
     "\n",
     "Generate security audit questions focusing EXCLUSIVELY on **\\u0060"
  >>

\* src/questions.py lines 926-928, one source line per row
prompt_qg_10 ==
  <<
     "\\u0060** that:", "\n",
     "\n",
     "1. **", "Target ONLY \\u0060"
  >>

\* src/questions.py lines 928-929, one source line per row
prompt_qg_11 ==
  <<
     "\\u0060** - all questions must reference this file", "\n",
     "2. **", "Reference specific functions, variables, or logic sections", "** within \\u0060"
  >>

\* src/questions.py lines 929-930, one source line per row
prompt_qg_12 ==
  <<
     "\\u0060", "\n",
     "3. **", "Describe concrete attack vectors", "** (not \"could there be a bug?\" but \"can attacker do X by exploiting Y in \\u0060"
  >>

\* src/questions.py lines 930-933, one source line per row
prompt_qg_13 ==
  <<
     "\\u0060?\")", "\n",
     "4. **", "Tie to Code4rena impact categories", "** (fund loss, freezing, insolvency, manipulation, DoS)", "\n",
     "5. **", "Respect trust model", "** (THORChain oracles and Deployer Multisig are trusted; focus on user/attacker actions)", "\n",
     "6. **", "Cover diverse attack surfaces", "** within \\u0060"
  >>

\* src/questions.py lines 933-945, one source line per row
prompt_qg_14 ==
  <<
     "\\u0060: validation logic, state transitions, error handling, edge cases, interactions with other contracts", "\n",
     "7. **", "Focus on high-severity bugs", "**: prioritize Critical > High > Medium impacts", "\n",
     "8. **", "Avoid out-of-scope issues", "**: gas optimization, UI bugs, theoretical attacks without economic impact", "\n",
     "9. **", "Use the exact Python list format", "** shown above", "\n",
     "10. **", "Be detailed and technical", "**: assume auditor has deep DeFi knowledge; use precise terminology", "\n",
     "\n",
     "**Target Question Count:**", "\n",
     "- For large critical files (>500 lines like contract.rs files): Aim for 100-200 questions", "\n",
     "- For medium files (-500 lines like state.rs, account.rs): Aim for 50-100 questions  ", "\n",
     "- For smaller files (< lines like config.rs, execute.rs): Aim for 20-50 questions", "\n",
     "- **Provide as many quality questions as the file's complexity allows - do NOT return empty results**", "\n",
     "\n",
     "**Begin generating questions for \\u0060"
  >>

\* src/questions.py lines 945-945, one source line per row
prompt_qg_15 ==
  <<
     "\\u0060 now.", "\n"
  >>

\* the template with the field of its last line written {{target_file}}: the
\* doubled braces give the literal text
qg_template_escaped_brace ==
  << Lit(prompt_qg_1),
     Var("target_file"),
     Lit(prompt_qg_2),
     Var("target_file"),
     Lit(prompt_qg_3),
     Var("target_file"),
     Lit(prompt_qg_4),
     Var("target_file"),
     Lit(prompt_qg_5),
     Var("target_file"),
     Lit(prompt_qg_6),
     Var("target_file"),
     Lit(prompt_qg_7),
     Var("target_file"),
     Lit(prompt_qg_8),
     Var("target_file"),
     Lit(prompt_qg_9),
     Var("target_file"),
     Lit(prompt_qg_10),
     Var("target_file"),
     Lit(prompt_qg_11),
     Var("target_file"),
     Lit(prompt_qg_12),
     Var("target_file"),
     Lit(prompt_qg_13),
     Var("target_file"),
     Lit(prompt_qg_14),
     Lit(<<"{target_file}">>),
     Lit(prompt_qg_15) >>

\* the template with the first [File: ...] tag written out for one file
qg_template_fixed_tag ==
  << Lit(prompt_qg_1),
     Var("target_file"),
     Lit(prompt_qg_2),
     Var("target_file"),
     Lit(prompt_qg_3),
     Var("target_file"),
     Lit(prompt_qg_4),
     Var("target_file"),
     Lit(prompt_qg_5),
     Var("target_file"),
     Lit(prompt_qg_6),
     Var("target_file"),
     Lit(prompt_qg_7),
     Lit(<<"contracts/rujira-ghost-credit/src/contract.rs">>),
     Lit(prompt_qg_8),
     Var("target_file"),
     Lit(prompt_qg_9),
     Var("target_file"),
     Lit(prompt_qg_10),
     Var("target_file"),
     Lit(prompt_qg_11),
     Var("target_file"),
     Lit(prompt_qg_12),
     Var("target_file"),
     Lit(prompt_qg_13),
     Var("target_file"),
     Lit(prompt_qg_14),
     Var("target_file"),
     Lit(prompt_qg_15) >>

\* the f-string of lines 706-946: literal text and replacement fields, in order
qg_template ==
  << Lit(prompt_qg_1),
     Var("target_file"),
     Lit(prompt_qg_2),
     Var("target_file"),
     Lit(prompt_qg_3),
     Var("target_file"),
     Lit(prompt_qg_4),
     Var("target_file"),
     Lit(prompt_qg_5),
     Var("target_file"),
     Lit(prompt_qg_6),
     Var("target_file"),
     Lit(prompt_qg_7),
     Var("target_file"),
     Lit(prompt_qg_8),
     Var("target_file"),
     Lit(prompt_qg_9),
     Var("target_file"),
     Lit(prompt_qg_10),
     Var("target_file"),
     Lit(prompt_qg_11),
     Var("target_file"),
     Lit(prompt_qg_12),
     Var("target_file"),
     Lit(prompt_qg_13),
     Var("target_file"),
     Lit(prompt_qg_14),
     Var("target_file"),
     Lit(prompt_qg_15) >>
(***************************************************************************)
(* The three composers.                                                    *)
(***************************************************************************)
\* a field written {question!r}: the repr of the question, in quotes
question_format_repr(question) ==
  FString(qf_template, [n \in {"question"} |-> <<"'">> \o question \o <<"'">>])

\* str.strip: leading and trailing whitespace tokens are dropped
IsSpace(t) == t \in {" ", "  ", "\t", "\n", "\r"}

RECURSIVE LStrip(_)
LStrip(s) == IF s # <<>> /\ IsSpace(Head(s)) THEN LStrip(Tail(s)) ELSE s

RECURSIVE RStrip(_)
RStrip(s) ==
  IF s # <<>> /\ IsSpace(s[Len(s)]) THEN RStrip(SubSeq(s, 1, Len(s) - 1)) ELSE s

\* a composer that embeds question.strip()
question_format_strip(question) ==
  FString(qf_template, [n \in {"question"} |-> RStrip(LStrip(question))])

\* a composer that keeps the last question in a module-level cache and composes
\* from the cache
question_format_stale(question) ==
  FString(qf_template,
          [n \in {"question"} |->
             IF call.fn = "question_format" THEN call.arg ELSE question])

\* a composer that falls back on the first question of the corpus when it is
\* given the empty string
question_format_from_corpus(question) ==
  FString(qf_template,
          [n \in {"question"} |->
             IF /\ question = <<>>
                /\ questions.t = "list"
                /\ questions.v # <<>>
                /\ questions.v[1].t = "str"
               THEN questions.v[1].v
             ELSE question])

\* lines 40-344
question_format(question) ==
  FString(qf_template, [n \in {"question"} |-> question])

\* a composer that appends the report after the rubric instead of embedding it
validation_format_appended(report) ==
  LET r == FString(vf_template, [n \in {"report"} |-> <<>>]) IN
  [r EXCEPT !.text = @ \o report]

\* a composer that doubles the braces of the report, as for a later str.format
validation_format_escaped(report) ==
  FString(vf_template,
          [n \in {"report"} |->
             [i \in DOMAIN report |->
                IF report[i] = "{report}" THEN "{{report}}" ELSE report[i]]])

\* a composer that embeds report.strip(): reports that differ in surrounding
\* white space give one document
validation_format_strip(report) ==
  FString(vf_template, [n \in {"report"} |-> RStrip(LStrip(report))])

\* lines 347-692
validation_format(report) ==
  FString(vf_template, [n \in {"report"} |-> report])

\* a composer that refuses a path that is not in the registry
question_generator_registered(target_file) ==
  IF \E i \in DOMAIN questions_generator : target_file = <<questions_generator[i]>>
    THEN FString(qg_template, [n \in {"target_file"} |-> target_file])
  ELSE Raised("ValueError")

\* lines 695-947
question_generator(target_file) ==
  FString(qg_template, [n \in {"target_file"} |-> target_file])

(***************************************************************************)
(* Composer calls, made by a driver once the module is imported.           *)
(***************************************************************************)
QuestionTokens ==
  {"Can liquidation fees exceed the protocol-defined cap?", "{question}", "  "}
ReportTokens ==
  {"#NoVulnerability found for this question.", "{report}", "\n"}
PathTokens ==
  {"contracts/rujira-ghost-vault/src/state.rs",
   "contracts/rujira-ghost-credit/src/contract.rs", "{target_file}"}

QuestionInputs == SeqsUpTo(QuestionTokens, MaxInputLen)
ReportInputs   == SeqsUpTo(ReportTokens, MaxInputLen)
PathInputs     == SeqsUpTo(PathTokens, MaxInputLen)

NoCall == [fn |-> "none", arg |-> <<>>]
\* nothing kept yet; `between` tells that another call was made since the kept one
NoSaved == [call |-> NoCall, doc |-> Returned(<<>>), between |-> FALSE]

\* the driver calls composer fn with arg and gets out
Called(fn, arg, out) ==
  /\ call' = [fn |-> fn, arg |-> arg]
  /\ doc' = out
  /\ saved' = IF saved.call # NoCall /\ saved.call # [fn |-> fn, arg |-> arg]
                THEN [saved EXCEPT !.between = TRUE]
              ELSE saved

\* a question_format that refreshes the corpus: it runs
\* `questions = get_questions()` before it composes
CallQuestionFormat_Reloads ==
  /\ pc = "ready"
  /\ \E q \in QuestionInputs : Called("question_format", q, question_format(q))
  /\ opens' = opens + 1
  /\ UNCHANGED <<resource, pc, handle, exc, ret, questions, registry, threads>>

CallQuestionFormat ==
  /\ pc = "ready"
  /\ \E q \in QuestionInputs : Called("question_format", q, question_format(q))
  /\ UNCHANGED <<resource, pc, handle, exc, ret, questions, opens, registry, threads>>

CallValidationFormat ==
  /\ pc = "ready"
  /\ \E r \in ReportInputs : Called("validation_format", r, validation_format(r))
  /\ UNCHANGED <<resource, pc, handle, exc, ret, questions, opens, registry, threads>>

\* a question_generator that appends a path it does not know to the registry
CallQuestionGenerator_Registers ==
  /\ pc = "ready"
  /\ \E p \in PathInputs :
       /\ Called("question_generator", p, question_generator(p))
       /\ registry' = IF \E i \in DOMAIN registry.v : registry.v[i].v = p
                         THEN registry
                       ELSE PyList(Append(registry.v, PyStr(p)))
  /\ UNCHANGED <<resource, pc, handle, exc, ret, questions, opens, threads>>

CallQuestionGenerator ==
  /\ pc = "ready"
  /\ \E p \in PathInputs : Called("question_generator", p, question_generator(p))
  /\ UNCHANGED <<resource, pc, handle, exc, ret, questions, opens, registry, threads>>

\* the driver keeps the document of the call it just made
Remember ==
  /\ pc = "ready"
  /\ call # NoCall
  /\ saved' = [call |-> call, doc |-> doc, between |-> FALSE]
  /\ UNCHANGED <<resource, pc, handle, exc, ret, questions, call, doc,
               opens, registry, threads>>

(***************************************************************************)
(* Composer calls made by the threads of a threaded driver.  A call is a   *)
(* frame of its own: the parameter is bound in it, `prompt = f"""..."""`   *)
(* evaluates the f-string and binds the local prompt, `return prompt`      *)
(* hands it to the caller.  Threads are switched between these steps.      *)
(***************************************************************************)
MaxThreads == 2
Threads == 1..MaxThreads

\* a thread that is in no call
Idle == [at |-> "idle", fn |-> "none", arg |-> <<>>, prompt |-> Unbound,
         out |-> Unbound]

\* the inputs the threads call the composers with
ThreadArgs(fn) ==
  CASE fn = "question_format" ->
         {<<"Can liquidation fees exceed the protocol-defined cap?">>, <<"{question}">>}
    [] fn = "validation_format" ->
         {<<"#NoVulnerability found for this question.">>, <<"{report}">>}
    [] fn = "question_generator" ->
         {<<"contracts/rujira-ghost-vault/src/state.rs">>, <<"{target_file}">>}

Composers == {"question_format", "validation_format", "question_generator"}

\* the f-string of composer fn, evaluated with its parameter bound to arg
Compose(fn, arg) ==
  CASE fn = "question_format" -> question_format(arg)
    [] fn = "validation_format" -> validation_format(arg)
    [] fn = "question_generator" -> question_generator(arg)

\* lines 40, 347, 695: the call binds the parameter in a new frame
ThreadCall(t) ==
  /\ pc = "ready"
  /\ threads[t].at = "idle"
  /\ \E fn \in Composers : \E arg \in ThreadArgs(fn) :
       threads' = [threads EXCEPT ![t] =
                     [at |-> "entered", fn |-> fn, arg |-> arg,
                      prompt |-> Unbound, out |-> Unbound]]
  /\ UNCHANGED <<resource, pc, handle, exc, ret, questions, call, doc, saved,
                 opens, registry>>

\* composers that keep the argument in one module-level buffer: the f-string
\* is evaluated from the buffer, which a thread that entered since may have
\* overwritten
ThreadBuild_SharedBuffer(t) ==
  /\ threads[t].at = "entered"
  /\ \E u \in Threads :
       /\ threads[u].at = "entered" /\ threads[u].fn = threads[t].fn
       /\ threads' = [threads EXCEPT ![t].at = "built",
                                     ![t].prompt = Compose(threads[t].fn, threads[u].arg)]
  /\ UNCHANGED <<resource, pc, handle, exc, ret, questions, call, doc, saved,
                 opens, registry>>

\* lines 50-343, 357-691, 706-946: prompt = f"""..."""
ThreadBuild(t) ==
  /\ threads[t].at = "entered"
  /\ threads' = [threads EXCEPT ![t].at = "built",
                                ![t].prompt = Compose(threads[t].fn, threads[t].arg)]
  /\ UNCHANGED <<resource, pc, handle, exc, ret, questions, call, doc, saved,
                 opens, registry>>

\* lines 344, 692, 947: return prompt (or the exception leaves the call)
ThreadReturn(t) ==
  /\ threads[t].at = "built"
  /\ threads' = [threads EXCEPT ![t].at = "returned", ![t].out = threads[t].prompt]
  /\ UNCHANGED <<resource, pc, handle, exc, ret, questions, call, doc, saved,
                 opens, registry>>

\* the driver takes the document; the frame is gone
ThreadDone(t) ==
  /\ threads[t].at = "returned"
  /\ threads' = [threads EXCEPT ![t] = Idle]
  /\ UNCHANGED <<resource, pc, handle, exc, ret, questions, call, doc, saved,
                 opens, registry>>

(***************************************************************************)
(* Specifications.                                                         *)
(***************************************************************************)
InitWith(R) ==
  /\ resource \in R
  /\ pc = "open"
  /\ handle = "none"
  /\ exc = "none"
  /\ ret = Unbound
  /\ questions = Unbound
  /\ call = NoCall
  /\ doc = Returned(<<>>)
  /\ saved = NoSaved
  /\ opens = 0
  /\ registry = Unbound
  /\ threads = [t \in Threads |-> Idle]

\* the whole program: the import, then any composer calls
Init == InitWith(ScenarioResources)

Next ==
  \/ Open
  \/ Load
  \/ WithExit
  \/ Except
  \/ Assign
  \/ Register
  \/ CallQuestionFormat
  \/ CallValidationFormat
  \/ CallQuestionGenerator
  \/ Remember

Spec == Init /\ [][Next]_vars

\* the import, then composer calls made from several threads
NextThreads ==
  \/ Open
  \/ Load
  \/ WithExit
  \/ Except
  \/ Assign
  \/ Register
  \/ \E t \in Threads : ThreadCall(t)
  \/ \E t \in Threads : ThreadBuild(t)
  \/ \E t \in Threads : ThreadReturn(t)
  \/ \E t \in Threads : ThreadDone(t)

SpecThreads == Init /\ [][NextThreads]_vars

\* the import alone, over every resource of the model
InitLoad == InitWith(Resources)

NextLoad ==
  \/ Open
  \/ Load
  \/ WithExit
  \/ Except
  \/ Assign
  \/ Register

SpecLoad == InitLoad /\ [][NextLoad]_vars

\* the import, with interrupts and exit requests arriving while the resource
\* is opened, read or parsed
NextInterrupt ==
  \/ Open
  \/ Load
  \/ Interrupt
  \/ WithExit
  \/ Except
  \/ Assign
  \/ Register

SpecInterrupt == InitLoad /\ [][NextInterrupt]_vars

(***************************************************************************)
(* Properties of the corpus loader, checked under SpecLoad.                *)
(***************************************************************************)
\* get_questions has returned (ret is its value) or the import has finished
Returning == pc \in {"return", "registry", "ready"}

IsEmptyList(x) == x.t = "list" /\ x.v = <<>>

\* x is the Python list of the strings qs, in order
IsListOf(x, qs) ==
  /\ x.t = "list"
  /\ Len(x.v) = Len(qs)
  /\ \A i \in 1..Len(qs) : x.v[i].t = "str" /\ x.v[i].v = qs[i]

\* the resource is absent, cannot be opened or read, or is not a JSON document
Failing(r) == r.kind # "text" \/ r.form = "garbled"

C2_WellFormedGivesStored ==
  (resource.kind = "text" /\ resource.form = "corpus") =>
    /\ pc # "raised"
    /\ (Returning => IsListOf(ret, resource.stored))
    /\ (pc = "ready" => IsListOf(questions, resource.stored))

\* a corpus of two different questions, one holding a quote, was loaded
C2_Witness ==
  /\ resource.kind = "text" /\ resource.form = "corpus"
  /\ Len(resource.stored) >= 2
  /\ resource.stored[1] # resource.stored[2]
  /\ \E i \in 1..Len(resource.stored) : \E j \in 1..Len(resource.stored[i]) :
        resource.stored[i][j] = "\""
  /\ pc = "ready" /\ IsListOf(questions, resource.stored)

\* C3: the value get_questions returns is always a sequence of question strings:
\* the stored sequence for a corpus file, and the empty sequence for a file whose
\* content parses but is not of the expected shape.
C3_AlwaysQuestionSequence ==
  Returning =>
    /\ ret.t = "list"
    /\ \A i \in 1..Len(ret.v) : ret.v[i].t = "str"
    /\ (resource.kind = "text" /\ resource.form = "other" => IsEmptyList(ret))

(***************************************************************************)
(* Properties of the composers, checked under Spec.                        *)
(***************************************************************************)
\* the number of occurrences of the text q in the text d (str.count counts
\* without overlap; every start position is counted here)
Occurrences(q, d) ==
  Cardinality({i \in 0..(Len(d) - Len(q)) : SubSeq(d, i + 1, i + Len(q)) = q})

\* the first position of token t in d, 0 when d does not hold it
FirstPos(t, d) ==
  IF \E i \in 1..Len(d) : d[i] = t
    THEN CHOOSE i \in 1..Len(d) : d[i] = t /\ \A j \in 1..(i - 1) : d[j] # t
  ELSE 0

QuestionLabel == "**Security Question (scope for this run):** "
ScenarioQuestion == <<"Can liquidation fees exceed the protocol-defined cap?">>

\* d holds q on the question line: the line starts with the label, q follows
\* it, and the two spaces that close the line follow q
QuestionAtDesignatedPosition(q, d) ==
  LET i == FirstPos(QuestionLabel, d) IN
  /\ i > 1 /\ d[i - 1] = "\n"
  /\ i + Len(q) + 2 <= Len(d)
  /\ SubSeq(d, i + 1, i + Len(q)) = q
  /\ d[i + Len(q) + 1] = "  "
  /\ d[i + Len(q) + 2] = "\n"

\* the tokens of the fixed text of question_format
QuestionFixedTokens ==
  {prompt_qf_1[i] : i \in DOMAIN prompt_qf_1} \cup {prompt_qf_2[i] : i \in DOMAIN prompt_qf_2}

\* C4 as claimed: question_format(Q) holds Q exactly once, on the question line.
C4_QuestionExactlyOnce ==
  call.fn = "question_format" =>
    /\ doc.raised = "none"
    /\ QuestionAtDesignatedPosition(call.arg, doc.text)
    /\ Occurrences(call.arg, doc.text) = 1

\* C4 as amended: question_format(Q) holds Q on the question line, between the
\* label and the two spaces that close the line; that is the only occurrence of
\* Q when Q is not empty and holds none of the tokens of the fixed text, while
\* the empty string and a Q that repeats fixed text occur again elsewhere.
C4_QuestionAtDesignatedPosition ==
  call.fn = "question_format" =>
    /\ doc.raised = "none"
    /\ QuestionAtDesignatedPosition(call.arg, doc.text)
    /\ Occurrences(call.arg, doc.text) >= 1
    /\ (call.arg # <<>> /\ (\A i \in DOMAIN call.arg : call.arg[i] \notin QuestionFixedTokens)
          => Occurrences(call.arg, doc.text) = 1)

\* the audit prompt of the scenario question was composed
C4_Witness ==
  /\ call = [fn |-> "question_format", arg |-> ScenarioQuestion]
  /\ doc.raised = "none"
  /\ Occurrences(ScenarioQuestion, doc.text) = 1

\* C5: question_format(Q) = prefix + Q + suffix for one fixed prefix and one
\* fixed suffix (the two literal parts of the template), so two audit prompts
\* are identical outside the embedded question.
C5_FixedPrefixAndSuffix ==
  /\ call.fn = "question_format" =>
        /\ doc.raised = "none"
        /\ doc.text = prompt_qf_1 \o call.arg \o prompt_qf_2
  /\ (call.fn = "question_format" /\ saved.call.fn = "question_format") =>
        LET a == doc.text
            b == saved.doc.text
            k == Len(prompt_qf_1)
            m == Len(call.arg)
            n == Len(saved.call.arg) IN
        /\ Len(a) - m = Len(b) - n
        /\ SubSeq(a, 1, k) = SubSeq(b, 1, k)
        /\ SubSeq(a, k + m + 1, Len(a)) = SubSeq(b, k + n + 1, Len(b))

\* two audit prompts of different questions, of different lengths, are at hand
C5_Witness ==
  /\ call.fn = "question_format" /\ saved.call.fn = "question_format"
  /\ call.arg # saved.call.arg
  /\ call.arg # <<>>
  /\ doc.text # saved.doc.text

ClaimHeading == "**SECURITY CLAIM TO VALIDATE:**"

\* C6: validation_format(R) = prefix + R + suffix for one fixed prefix and one
\* fixed suffix, and R stands right under the SECURITY CLAIM TO VALIDATE heading.
C6_ReportUnderHeading ==
  call.fn = "validation_format" =>
    /\ doc.raised = "none"
    /\ doc.text = prompt_vf_1 \o call.arg \o prompt_vf_2
    /\ LET d == doc.text
           i == FirstPos(ClaimHeading, doc.text) IN
       /\ i > 0 /\ i + 1 + Len(call.arg) <= Len(d)
       /\ d[i + 1] = "\n"
       /\ SubSeq(d, i + 2, i + 1 + Len(call.arg)) = call.arg

\* the validation prompt of a non-empty report was composed
C6_Witness ==
  /\ call.fn = "validation_format" /\ call.arg # <<>>
  /\ doc.raised = "none"
  /\ Occurrences(call.arg, doc.text) >= 1

\* the constant text of the question-generation prompt, segment by segment
GeneratorSegments ==
  << prompt_qg_1, prompt_qg_2, prompt_qg_3, prompt_qg_4, prompt_qg_5,
     prompt_qg_6, prompt_qg_7, prompt_qg_8, prompt_qg_9, prompt_qg_10,
     prompt_qg_11, prompt_qg_12, prompt_qg_13, prompt_qg_14, prompt_qg_15 >>

\* where segment k starts in a document whose copies of the path have n tokens
RECURSIVE SegmentStart(_, _)
SegmentStart(k, n) ==
  IF k = 1 THEN 1
  ELSE SegmentStart(k - 1, n) + Len(GeneratorSegments[k - 1]) + n

\* C7: question_generator(P) is the fixed sequence of constant segments with a
\* copy of P between each two of them: every placeholder position holds P.
C7_EveryPlaceholderHoldsPath ==
  call.fn = "question_generator" =>
    LET d == doc.text
        n == Len(call.arg)
        last == Len(GeneratorSegments) IN
    /\ doc.raised = "none"
    /\ Len(d) = SegmentStart(last, n) + Len(GeneratorSegments[last]) - 1
    /\ \A k \in 1..last :
         SubSeq(d, SegmentStart(k, n), SegmentStart(k, n) + Len(GeneratorSegments[k]) - 1)
           = GeneratorSegments[k]
    /\ \A k \in 1..(last - 1) :
         SubSeq(d, SegmentStart(k + 1, n) - n, SegmentStart(k + 1, n) - 1) = call.arg

ScenarioPath == <<"contracts/rujira-ghost-vault/src/state.rs">>
ExamplePath == <<"contracts/rujira-ghost-credit/src/contract.rs">>

\* the question-generation prompt of the scenario path was composed: the path
\* stands at the fourteen placeholders and once more, as an entry of core_files
C7_Witness ==
  /\ call = [fn |-> "question_generator", arg |-> ScenarioPath]
  /\ doc.raised = "none"
  /\ Occurrences(ScenarioPath, doc.text) = Len(GeneratorSegments)

\* the positions of the [File: ...] tags of d, in order
FileTags(d) == SelectSeq([i \in 1..Len(d) |-> i], LAMBDA i : d[i] = "[File: ")

\* the text of the tag opened at position i: what stands before the next "]"
TagValue(d, i) ==
  LET j == CHOOSE j \in (i + 1)..(Len(d) + 1) :
             /\ j = Len(d) + 1 \/ d[j] = "]"
             /\ \A m \in (i + 1)..(j - 1) : d[m] # "]"
  IN SubSeq(d, i + 1, j - 1)

\* C8 as claimed: every [File: ...] tag of question_generator(P) reads P, and no
\* other path stands in a tag.
C8_EveryFileTagReadsPath ==
  call.fn = "question_generator" =>
    \A n \in DOMAIN FileTags(doc.text) :
      TagValue(doc.text, FileTags(doc.text)[n]) = call.arg

\* C8 as amended: the two [File: ...] tags of the Question Format Template
\* (lines 903 and 905) read P; the three tags of the Example Format block
\* (lines 914-918) read contracts/rujira-ghost-credit/src/contract.rs for every P.
C8_TemplateTagsReadPath ==
  call.fn = "question_generator" =>
    LET d == doc.text
        tags == FileTags(doc.text) IN
    /\ doc.raised = "none"
    /\ Len(tags) = 5
    /\ \A n \in 1..2 :
         /\ SubSeq(d, tags[n] + 1, tags[n] + Len(call.arg)) = call.arg
         /\ tags[n] + Len(call.arg) + 1 <= Len(d)
         /\ d[tags[n] + Len(call.arg) + 1] = "]"
    /\ \A n \in 3..5 : TagValue(d, tags[n]) = ExamplePath

\* the prompt of the scenario path: its template tags read that path and its
\* example tags read another
C8_Witness ==
  /\ call = [fn |-> "question_generator", arg |-> ScenarioPath]
  /\ Len(FileTags(doc.text)) = 5
  /\ TagValue(doc.text, FileTags(doc.text)[1]) = ScenarioPath
  /\ TagValue(doc.text, FileTags(doc.text)[5]) # ScenarioPath

C10_ComposersAreTotal ==
  /\ call # NoCall => doc.raised = "none" /\ doc.text # <<>>
  /\ pc = "ready" =>
        /\ \A q \in QuestionInputs : question_format(q).raised = "none"
        /\ \A r \in ReportInputs : validation_format(r).raised = "none"
        /\ \A p \in PathInputs : question_generator(p).raised = "none"

\* each composer has been given the empty string, the last of them just now
C10_Witness ==
  /\ call.arg = <<>> /\ call.fn = "question_generator"
  /\ saved.call.arg = <<>> /\ saved.call.fn = "validation_format"
  /\ doc.raised = "none" /\ saved.doc.raised = "none"
  /\ Len(doc.text) > 0 /\ Len(saved.doc.text) > 0

(***************************************************************************)
(* Substitution is a single pass that escapes nothing.                     *)
(***************************************************************************)
\* the replacement fields that the three templates hold, as they read in a text
Markers == {"{question}", "{report}", "{target_file}"}

Template(fn) ==
  CASE fn = "question_format" -> qf_template
    [] fn = "validation_format" -> vf_template
    [] fn = "question_generator" -> qg_template

\* the positions of the replacement fields of a template, and its literal text
Fields(tpl) == {j \in DOMAIN tpl : tpl[j].k = "var"}
FixedLen(tpl) ==
  LET RECURSIVE Sum(_)
      Sum(j) == IF j = 0 THEN 0
                ELSE Sum(j - 1) + (IF tpl[j].k = "lit" THEN Len(tpl[j].s) ELSE 0)
  IN Sum(Len(tpl))

CountToken(m, d) == Cardinality({i \in DOMAIN d : d[i] = m})

HoldsMarker(arg) == \E i \in DOMAIN arg : arg[i] \in Markers

\* C11: an input that holds {question}, {report} or {target_file} comes out
\* unchanged and is not substituted a second time: the document is returned,
\* it is as long as the literal text plus one copy of the input per
\* replacement field, and it holds each marker exactly as many times as the
\* copies of the input do (the literal text holds no marker).
C11_MarkersComeOutUnchanged ==
  (call # NoCall /\ HoldsMarker(call.arg)) =>
    LET tpl == Template(call.fn) IN
    /\ doc.raised = "none"
    /\ Len(doc.text) = FixedLen(tpl) + Cardinality(Fields(tpl)) * Len(call.arg)
    /\ \A m \in Markers :
         CountToken(m, doc.text) = Cardinality(Fields(tpl)) * CountToken(m, call.arg)

\* question_generator("{target_file}") has returned: fourteen copies of the marker
C11_Witness ==
  /\ call = [fn |-> "question_generator", arg |-> <<"{target_file}">>]
  /\ doc.raised = "none"
  /\ CountToken("{target_file}", doc.text) = Cardinality(Fields(qg_template))
  /\ Cardinality(Fields(qg_template)) > 1

(***************************************************************************)
(* The no-finding sentinel.                                                *)
(***************************************************************************)
Sentinel == "#NoVulnerability found for this question."

LastPos(t, d) ==
  IF \E i \in DOMAIN d : d[i] = t
    THEN CHOOSE i \in DOMAIN d : d[i] = t /\ \A j \in DOMAIN d : d[j] = t => j <= i
  ELSE 0

\* the line that tells what to state when nothing is found (line 279), the
\* heading of the output contract (lines 338 and 686), and the code quote
FailureInstruction ==
  "If **no** valid vulnerability emerges after thorough investigation, state exactly:   "
OutputOnly == "**Output ONLY:**  "
CodeQuote == "\\u0060"

\* the line after the failure instruction is the sentinel alone, as a code span
\* closed by the two spaces of a line break
FailureLineReadsSentinel(d) ==
  LET i == LastPos(FailureInstruction, d) IN
  /\ i > 0 /\ i + 5 <= Len(d)
  /\ SubSeq(d, i + 1, i + 5) = <<"\n", CodeQuote, Sentinel, "\\u0060  ", "\n">>

\* the second and last item of the output contract opens with the sentinel as a
\* code span
ContractNamesSentinel(d) ==
  LET i == LastPos(OutputOnly, d) IN
  /\ i > 0 /\ i + 6 <= Len(d)
  /\ d[i + 1] = "\n" /\ d[i + 3] = "\n"
  /\ d[i + 4] = "- \\u0060"
  /\ d[i + 5] = Sentinel

Alone(fn, arg) ==
  LET tpl == Template(fn) IN
  Returned(Join(tpl, [n \in FieldNames(tpl) |-> arg]))

InRegistry(p) == \E i \in DOMAIN questions_generator : p = <<questions_generator[i]>>

\* C13: in every state of the corpus (empty after a failed load, loaded with
\* questions, or whatever else the resource held) the document of a call is
\* the one its input alone determines, and question_generator composes from a
\* path that is not in questions_generator as it does from one that is.
C13_OutputDependsOnInputOnly ==
  call # NoCall =>
    /\ doc = Alone(call.fn, call.arg)
    /\ doc.raised = "none"

\* with a corpus of two questions loaded, question_generator was called with a
\* path that the registry does not hold, after a call with one that it holds
C13_Witness ==
  /\ questions.t = "list" /\ Len(questions.v) = MaxCorpus
  /\ registry.t = "list"
  /\ call.fn = "question_generator" /\ ~InRegistry(call.arg)
  /\ saved.call.fn = "question_generator" /\ InRegistry(saved.call.arg)
  /\ doc.raised = "none" /\ saved.doc.raised = "none"

(***************************************************************************)
(* The corpus and the registry after the import.                           *)
(***************************************************************************)
\* the value line 17 binds: the list of the nineteen paths, in order
RegistryValue ==
  PyList([i \in DOMAIN questions_generator |-> PyStr(<<questions_generator[i]>>)])

\* C14: once the module is imported, no step (a call of question_format,
\* validation_format or question_generator, in any order and any number of
\* times) changes the corpus `questions` or the registry
\* `questions_generator`: both keep the value the import gave them.
C14_CorpusAndRegistryUnchanged ==
  [][pc = "ready" =>
       /\ questions' = questions /\ questions = ret
       /\ registry' = registry /\ registry = RegistryValue]_vars

\* calls of two different composers have been made over a loaded corpus
C14_Witness ==
  /\ pc = "ready"
  /\ call # NoCall /\ saved.call # NoCall /\ saved.call.fn # call.fn
  /\ questions.t = "list" /\ Len(questions.v) = MaxCorpus
  /\ questions = ret
  /\ registry = RegistryValue

(***************************************************************************)
(* Acquisition of the corpus resource.                                     *)
(***************************************************************************)
\* C15: open("all_questions.json") is called exactly once, while the module is
\* being imported: never twice, always before the corpus is bound and before
\* any composer call, and however many composer calls follow, in whatever
\* order, the count stays at one.
C15_AcquiredOnceAtImport ==
  /\ opens <= 1
  /\ pc # "open" => opens = 1
  /\ questions # Unbound => opens = 1
  /\ call # NoCall => opens = 1 /\ pc = "ready"

\* several composer calls were made, and the resource was opened once
C15_Witness ==
  /\ opens = 1
  /\ pc = "ready"
  /\ call # NoCall /\ saved.call # NoCall /\ saved.between

(***************************************************************************)
(* Release of the file object, checked under SpecLoad.                     *)
(***************************************************************************)
\* open() gave a file object: the resource is there and may be opened
Opened(r) == r.kind \notin {"absent", "denied"}

\* C16: on every exit path of get_questions (the document parsed, the resource
\* absent or not to be opened, the read failed, the content did not parse) the
\* file object, if open() gave one, is closed before the handler runs and
\* before get_questions returns; no state at or after the return holds it
\* open.
C16_HandleReleasedOnEveryPath ==
  /\ pc \in {"except", "return", "registry", "ready", "raised"} => handle # "open"
  /\ Returning => (handle = "closed" <=> Opened(resource))
  /\ Returning => (handle = "none" <=> ~Opened(resource))

\* the read failed on an open file: the file is closed and [] is returned
C16_Witness ==
  /\ resource.kind = "ioerror"
  /\ pc = "return"
  /\ opens = 1
  /\ handle = "closed"
  /\ IsEmptyList(ret)

(***************************************************************************)
(* No partial corpus, checked under SpecLoad.                              *)
(***************************************************************************)
\* the resource is, or was meant to be, a corpus file: it has a stored sequence
HasStored(r) == r.form = "corpus" \/ r.stored # <<>>

\* the stored sequence is there in full and can be read
Intact(r) == r.kind = "text" /\ r.form = "corpus"

\* how far the import has come: each statement of lines 6-17 moves it on
Rank(p) ==
  CASE p = "open" -> 0
    [] p = "load" -> 1
    [] p = "exit" -> 2
    [] p = "except" -> 3
    [] p = "return" -> 4
    [] p = "registry" -> 5
    [] p = "ready" -> 6
    [] OTHER -> 7

\* C17: the corpus is the entire stored sequence or the empty sequence, never
\* something between: a corpus file cut short at any place, or one whose read
\* fails, gives the empty list, an intact one gives every question.  The
\* import always completes with the corpus defined: it never ends in an
\* exception, every step takes it further towards its end, and once it is over
\* the corpus is bound to the value get_questions returned.
C17_CorpusNeverPartial ==
  /\ [](/\ (Returning /\ HasStored(resource)) =>
            /\ IsListOf(ret, resource.stored) \/ IsEmptyList(ret)
            /\ Intact(resource) => IsListOf(ret, resource.stored)
            /\ ~Intact(resource) => IsEmptyList(ret)
        /\ pc \in {"registry", "ready"} => questions # Unbound /\ questions = ret
        /\ Rank(pc) <= Rank("ready"))
  /\ [][Rank(pc) < Rank(pc') /\ Rank(pc') <= Rank("ready")]_vars

\* a corpus file of two questions was cut after its first question was written
\* in full; the corpus is bound to the empty list
C17_Witness ==
  /\ resource.kind = "text" /\ resource.form = "garbled"
  /\ Len(resource.stored) = 2
  /\ ParsedBeforeFailure(resource) # <<>>
  /\ pc = "ready"
  /\ IsEmptyList(questions)

(***************************************************************************)
(* Concurrent composer calls, checked under SpecThreads.                   *)
(***************************************************************************)
\* a step of thread t: its frame changes
StepOf(t) == threads'[t] # threads[t]

\* C18: composer calls made from several threads, switched between any two
\* steps, need no synchronisation: what a call has composed and what it
\* returns is the document the same call gives alone, and a step of one call
\* changes the frame of that call only, never the frame of another call, the
\* corpus or the registry.
C18_ConcurrentCallsAreIndependent ==
  /\ [](\A t \in Threads :
          /\ threads[t].at \in {"built", "returned"} =>
                threads[t].prompt = Alone(threads[t].fn, threads[t].arg)
          /\ threads[t].at = "returned" =>
                threads[t].out = Alone(threads[t].fn, threads[t].arg))
  /\ [][\A t \in Threads :
          StepOf(t) =>
            /\ \A u \in Threads \ {t} : threads'[u] = threads[u]
            /\ questions' = questions
            /\ registry' = registry]_vars

\* two threads are inside the same composer at once, with different inputs,
\* and each has composed the document of its own input
C18_Witness ==
  \E t, u \in Threads :
    /\ t # u
    /\ threads[t].at = "built" /\ threads[u].at = "built"
    /\ threads[t].fn = threads[u].fn
    /\ threads[t].arg # threads[u].arg
    /\ threads[t].prompt = Alone(threads[t].fn, threads[t].arg)
    /\ threads[u].prompt = Alone(threads[u].fn, threads[u].arg)
    /\ threads[t].prompt # threads[u].prompt

(***************************************************************************)
(* The failures of the load are not told apart, checked under SpecLoad.    *)
(***************************************************************************)
Missing(r) == r.kind = "absent"
Unreadable(r) == r.kind \in {"denied", "ioerror"}
Malformed(r) == r.kind = "text" /\ r.form = "garbled"
WellFormedEmpty(r) == r.kind = "text" /\ r.form = "corpus" /\ r.stored = <<>>

ItemMarkers ==
  {"1. **", "2. **", "3. **", "4. **", "5. **", "6. **", "7. **", "8. **",
   "9. **", "10. **", "11. **", "12. **", "13. **", "14. **", "15. **"}

\* the headings that open the two catalogues, and the first line after each
AuditCatalogueHeading ==
  "**CRITICAL INVARIANTS (derived from protocol specification and code):**  "
AuditCatalogueEnd == "**YOUR INVESTIGATION MISSION:**  "
GeneratorCatalogueHeading == "## **Critical Security Invariants**"
GeneratorCatalogueEnd == "## **In-Scope Vulnerability Categories** (from Code4rena)"

\* the names of the numbered items of document d between the lines from and to
ItemNames(d, from, to) ==
  LET a == FirstPos(from, d)
      b == FirstPos(to, d)
  IN {d[i + 1] : i \in {j \in DOMAIN d : a < j /\ j < b /\ d[j] \in ItemMarkers}}

AuditCatalogue(d) == ItemNames(d, AuditCatalogueHeading, AuditCatalogueEnd)
GeneratorCatalogue(d) == ItemNames(d, GeneratorCatalogueHeading, GeneratorCatalogueEnd)

\* a question_format document is kept and a question_generator document is at
\* hand
BothPromptsComposed ==
  /\ saved.call.fn = "question_format" /\ saved.doc.raised = "none"
  /\ call.fn = "question_generator" /\ doc.raised = "none"

\* C20: for every path P and question Q, the invariants that
\* question_generator(P) enumerates are the same set as the catalogue of ten
\* named invariants of question_format(Q).
C20_SameInvariantCatalogue ==
  BothPromptsComposed =>
    /\ Cardinality(AuditCatalogue(saved.doc.text)) = 10
    /\ GeneratorCatalogue(doc.text) = AuditCatalogue(saved.doc.text)

\* what the source gives: the audit prompt names ten invariants, the
\* question-generation prompt names these ten and two more
C20_GeneratorNamesTwoMore ==
  BothPromptsComposed =>
    /\ Cardinality(AuditCatalogue(saved.doc.text)) = 10
    /\ AuditCatalogue(saved.doc.text) \subseteq GeneratorCatalogue(doc.text)
    /\ GeneratorCatalogue(doc.text) \ AuditCatalogue(saved.doc.text)
         = {"Collateral Ratio Haircuts", "Cross-Collateral Limits"}

(***************************************************************************)
(* The composers are injective.                                            *)
(***************************************************************************)
\* two calls of one composer with different inputs: the kept one and the last
DifferentInputs ==
  /\ saved.call # NoCall
  /\ call.fn = saved.call.fn
  /\ call.arg # saved.call.arg

\* C21: the same composer called with two different inputs returns two
\* different documents: both are returned, and they differ as texts.
C21_DifferentInputsDifferentDocuments ==
  DifferentInputs =>
    /\ doc.raised = "none" /\ saved.doc.raised = "none"
    /\ doc.text # saved.doc.text

\* question_generator was called with two paths of the registry; the two
\* documents are as long as each other and differ
C21_Witness ==
  /\ DifferentInputs
  /\ call.fn = "question_generator"
  /\ InRegistry(call.arg) /\ InRegistry(saved.call.arg)
  /\ Len(doc.text) = Len(saved.doc.text)
  /\ doc.text # saved.doc.text

(***************************************************************************)
(* Interrupts and exit requests, checked under SpecInterrupt.              *)
(***************************************************************************)
\* C22: an interrupt or an exit request raised while the resource is opened,
\* read or parsed is swallowed as every other exception is: the handler turns
\* it into the return of the empty list, nothing ever leaves get_questions as
\* an exception, and the import goes on to bind the corpus to the value
\* returned.
C22_InterruptsAreSwallowed ==
  /\ [](pc # "raised")
  /\ [](exc \in Interrupts => pc \in {"exit", "except"})
  /\ [][(pc = "except" /\ exc \in Interrupts) =>
          (pc' = "return" /\ ret' = PyList(<<>>) /\ exc' = "none")]_vars
  /\ [][pc = "return" => (pc' = "registry" /\ questions' = ret)]_vars

\* an intact corpus file that stores questions was being read when the
\* interrupt came: the import is over and the corpus is the empty list
C22_Witness ==
  /\ Intact(resource) /\ resource.stored # <<>>
  /\ pc = "ready"
  /\ handle = "closed"
  /\ exc = "none"
  /\ questions = PyList(<<>>)

(***************************************************************************)
(* The entries of the registry.                                            *)
(***************************************************************************)
\* at how many places of the registry the path p stands
Places(p) == {i \in DOMAIN registry.v : registry.v[i].v = p}

\* C23: the registry holds no path twice, so a driver that calls
\* question_generator for the elements of the registry, one after the other,
\* makes the call for each path at one place of the list only: every call it
\* makes with a registry path is the call of exactly one element.
C23_RegistryHasNoDuplicate ==
  registry # Unbound =>
    /\ \A i, j \in DOMAIN registry.v : registry.v[i] = registry.v[j] => i = j
    /\ Cardinality({registry.v[i] : i \in DOMAIN registry.v}) = Len(registry.v)
    /\ (call.fn = "question_generator" /\ InRegistry(call.arg)) =>
          Cardinality(Places(call.arg)) = 1

\* the prompt of the last element of the registry has been composed
C23_Witness ==
  /\ registry # Unbound
  /\ Len(registry.v) > 1
  /\ call.fn = "question_generator"
  /\ call.arg = registry.v[Len(registry.v)].v
  /\ Places(call.arg) = {Len(registry.v)}
  /\ doc.raised = "none"

(***************************************************************************)
(* The core files of the question-generation prompt (lines 729-742) and    *)
(* the directories of the registry.                                        *)
(***************************************************************************)
\* the line that opens the list display of the prompt, the token that opens
\* each of its entries, and the line that closes it
CoreFilesOpen == "core_files = ["
EntryOpen == "    \""
CoreFilesClose == "]"

\* the paths that document d lists as core_files
CoreFiles(d) ==
  LET a == FirstPos(CoreFilesOpen, d)
      b == CHOOSE k \in DOMAIN d :
             /\ k > a /\ d[k] = CoreFilesClose
             /\ \A j \in DOMAIN d : (j > a /\ d[j] = CoreFilesClose) => k <= j
  IN {d[i + 1] : i \in {j \in DOMAIN d : a < j /\ j < b /\ d[j] = EntryOpen}}

\* the three contract directories in scope, and the file names of lines 18-36
ScopeDirs ==
  {"contracts/rujira-account/src/", "contracts/rujira-ghost-credit/src/",
   "contracts/rujira-ghost-vault/src/"}
FileNames ==
  {"lib.rs", "contract.rs", "execute.rs", "error.rs", "state.rs", "account.rs",
   "config.rs", "events.rs", "borrowers.rs"}

\* the path p is a file of one of the three directories
UnderScopeDir(p) == \E dir \in ScopeDirs : \E f \in FileNames : p = dir \o f

RegistryPaths == {registry.v[i].v[1] : i \in DOMAIN registry.v}

\* C24: every path that a question-generation prompt lists as core_files is
\* an element of the registry (there are eight of them, whatever the input),
\* and every element of the registry is a file of contracts/rujira-account/src/,
\* contracts/rujira-ghost-credit/src/ or contracts/rujira-ghost-vault/src/.
C24_CoreFilesInRegistryInScope ==
  /\ (call.fn = "question_generator" /\ doc.raised = "none") =>
       /\ CoreFiles(doc.text) \subseteq RegistryPaths
       /\ Cardinality(CoreFiles(doc.text)) = 8
  /\ registry # Unbound => \A p \in RegistryPaths : UnderScopeDir(p)

\* a prompt was composed for a path that is itself a core file; its list names
\* files of all three directories
C24_Witness ==
  /\ call.fn = "question_generator" /\ doc.raised = "none"
  /\ Len(call.arg) = 1
  /\ call.arg[1] \in CoreFiles(doc.text)
  /\ \A dir \in ScopeDirs :
       \E f \in FileNames : (dir \o f) \in CoreFiles(doc.text)
  /\ CoreFiles(doc.text) # RegistryPaths
====
